---- MODULE Spec2Model ----
(***************************************************************************)
(* Peer-session engine of the BitTorrent client: connect() seeds a shared  *)
(* piece inventory (shared_state) and runs one async_exchange_messages     *)
(* session per peer.  Sessions are asyncio tasks: a task runs atomically   *)
(* between two suspension points (reader.read, writer.drain); the lock of  *)
(* shared_state is never contended inside such a stretch.                  *)
(*                                                                         *)
(* Lengths are scaled: one block is block_size = 2 units (16384 bytes in   *)
(* the source), a piece is piece_length = 4 units (two blocks), the        *)
(* tolerance of is_piece_complete is 1 unit (100 bytes, less than a        *)
(* block), and the pipeline limit is 2 pieces (15 in the source).          *)
(***************************************************************************)
EXTENDS Integers, FiniteSets, Sequences, TLC

VARIABLES
    num_pieces,                 \* len(info_dict['pieces']) // 20
    total_length,               \* info_dict['length']: bytes of the torrent
    corrupt,                    \* per session: pieces holding a block with wrong bytes
    returned,                   \* the session whose result connect() returned
    handshake_response,         \* per session: the 68 bytes received from the peer
    interested,                 \* per session: INTERESTED was sent
    \* the handshake codec applied to one pair of identifiers
    info_hash,                  \* argument of construct_handshake
    peer_id,                    \* argument of construct_handshake
    expected_info_hash,         \* argument of validate_handshake
    handshake_data,             \* the bytes construct_handshake returned
    validated,                  \* the pair validate_handshake returned
    handshake_pc,               \* "rest" | "new" | "constructed" | "raised" | "validated"
    \* the message framing applied to one message in front of other bytes
    message_id,                 \* argument of create_message
    payload,                    \* argument of create_message
    rest,                       \* the bytes that follow the message in the buffer
    data,                       \* the buffer handed to parse_message
    parsed,                     \* the value parse_message returned
    framing_pc,                 \* "rest" | "new" | "created" | "parsed"
    \* the read loop of a session seen as a parser of a byte stream
    sent,                       \* the frames the peer wrote, as (message_id, payload)
    wire,                       \* the bytes of these frames not yet read
    buffer,                     \* the local buffer of async_exchange_messages
    received,                   \* the frames the loop took out of the buffer
    stream_pc,                  \* "rest" | "read" | "parse" | "closed"
    \* piece_manager.py: the assembly of the output files from pieces_dir
    files,                      \* info_dict['files'] as the sequence of their lengths
    asm_total_length,           \* info_dict['length'] of a single-file torrent
    saved_pieces,               \* get_saved_pieces(pieces_dir)
    piece_files,                \* saved index -> what load_piece_from_disk returns
    file_no,                    \* position of `for file_info in files`, from 1
    remaining,                  \* assemble_multi_file
    current_piece_index,        \* assemble_multi_file
    current_piece_offset,       \* assemble_multi_file
    current_piece_data,         \* assemble_multi_file; None before the first load
    asm_piece_index,            \* piece_index of assemble_single_file
    bytes_written,              \* assemble_single_file
    out_files,                  \* the bytes written to each output file so far
    asm_pc,                     \* "rest" | "open" | "loop" | "single" | "done"
    \* piece_manager.py: is_piece_complete applied to one dictionary of blocks
    ipc_pieces_dict,            \* argument pieces_dict
    ipc_piece_index,            \* argument piece_index
    ipc_result,                 \* the value returned
    ipc_pc,                     \* "rest" | "new" | "checked"
    \* connection.py: the tasks of async_connect_to_peer and their sockets
    writer,                     \* peer index -> "none" | "open" | "closed"
    conn_pc,                    \* peer index -> position of the task
    conn_result,                \* peer index -> "pending" | "None" | "dict" | "cancelled"
    \* connection.py: shared_state['lock'] and the flag set under it
    lock,                       \* the session that holds the lock, or NoSession
    can_download,               \* session -> can_download of the claim loops
    \* piece_manager.py: one call of verify_and_save_piece
    vs_piece_index,             \* argument piece_index
    vs_pieces_dict,             \* argument pieces_dict: piece index -> {offset: bytes}
    piece_hashes,               \* argument piece_hashes
    vs_file,                    \* the bytes of the piece file of piece_index, None when absent
    vs_piece_data,              \* piece_data of 246, None before
    vs_result,                  \* the value returned
    vs_pc,                      \* "rest" | "start" | "existing" | "assemble" | "save" | "returned"
    \* history of the frames the peers sent
    short_piece,                \* sessions sent a PIECE frame of fewer than 8 payload bytes
    \* connect() seen as the supervisor of the batches of tasks
    peer_list_len,              \* len(peer_list)
    batch,                      \* the loop variable of connect
    peer_index,
    cpc,                        \* position of connect: "loop" | "sleep" | "gather" | "done"
    task,                       \* peer index -> "new" | "running" | "None" | "dict" | "exception"
    starts,                     \* peer index -> tasks created for the entry
    batch_peers,                \* the peer indices of the batch launched last
    successful_connections,     \* sequence of peer indices
    running_tasks,              \* sequence of peer indices
    connect_result,             \* "pending" | "None" | "dict"
    probe_live,                 \* a probe found a task running or finished with a result
    sup,                        \* position of connect(): "init" | "running"
    disk,                       \* pieces_dir: piece index -> "none" | "good" | "partial"
    shared_pieces_completed,    \* shared_state['pieces_completed']
    shared_pieces_downloading,  \* shared_state['pieces_downloading']
    pc,                         \* per session: position of the task
    result,                     \* per session: value async_exchange_messages returned
    bitfield,                   \* per session: [len, bits]; len = 0 is None / []
    unchoked,                   \* per session
    pieces_received,            \* per session: piece -> (offset -> block length)
    blocks_requested,           \* per session: piece -> set of offsets
    pieces_downloading,         \* per session: local set
    pieces_completed,           \* per session: local set
    scan_idx,                   \* per session: piece_index of the running claim loop
    scan_ret,                   \* per session: where the claim loop returns to
    cur_piece,                  \* per session: piece_index of the PIECE being handled
    peer_has,                   \* per peer: the pieces its BITFIELD advertises
    peer_pending,               \* per peer: REQUESTs received and not yet answered
    unrequested,                \* number of PIECE frames sent without a REQUEST
    chokes,                     \* number of CHOKE frames sent
    nreq,                       \* per session: (piece, offset) -> REQUESTs sent
    added                       \* per session: indices it added to shared downloading

\* the variables the session engine never writes
batchVars == <<peer_list_len, batch, peer_index, cpc, task, starts, batch_peers,
               successful_connections, running_tasks, connect_result, probe_live>>

handshakeVars == <<info_hash, peer_id, expected_info_hash, handshake_data,
                   validated, handshake_pc>>

framingVars == <<message_id, payload, rest, data, parsed, framing_pc>>

streamVars == <<sent, wire, buffer, received, stream_pc>>

asmVars == <<files, asm_total_length, saved_pieces, piece_files, file_no, remaining,
             current_piece_index, current_piece_offset, current_piece_data,
             asm_piece_index, bytes_written, out_files, asm_pc>>

ipcVars == <<ipc_pieces_dict, ipc_piece_index, ipc_result, ipc_pc>>

\* the variables of the functions that are checked on their own
histVars == <<short_piece>>

connVars == <<writer, conn_pc, conn_result>>

lockVars == <<lock, can_download>>

verifyVars == <<vs_piece_index, vs_pieces_dict, piece_hashes, vs_file, vs_piece_data,
                vs_result, vs_pc>>

toolVars == <<ipcVars, connVars, lockVars, verifyVars, histVars>>

codecVars == <<handshakeVars, framingVars, streamVars, asmVars, toolVars>>

\* the variables of the sessions and of connect()
coreVars == <<handshake_response, interested, batchVars, total_length, corrupt, returned, num_pieces, sup, disk,
                shared_pieces_completed, shared_pieces_downloading, pc, result,
                bitfield, unchoked, pieces_received, blocks_requested,
                pieces_downloading, pieces_completed, scan_idx, scan_ret, cur_piece,
                peer_has, peer_pending, unrequested, chokes, nreq, added>>

engineVars == <<coreVars, toolVars>>

\* what a step of a session that adds to the history leaves alone
quietVars == <<handshake_response, interested, total_length, corrupt, returned,
               batchVars, handshakeVars, framingVars, streamVars, asmVars, ipcVars,
               connVars, lockVars, verifyVars>>

extVars == <<handshake_response, interested, total_length, corrupt, returned,
             batchVars, codecVars>>

sessionVars == <<handshake_response, interested, codecVars, total_length, corrupt, returned, num_pieces, sup, disk,
                 shared_pieces_completed, shared_pieces_downloading, pc, result,
                 bitfield, unchoked, pieces_received, blocks_requested,
                 pieces_downloading, pieces_completed, scan_idx, scan_ret,
                 cur_piece, peer_has, peer_pending, unrequested, chokes, nreq, added>>

vars == <<extVars, num_pieces, sup, disk, shared_pieces_completed, shared_pieces_downloading, pc,
          result, bitfield, unchoked, pieces_received, blocks_requested,
          pieces_downloading, pieces_completed, scan_idx, scan_ret, cur_piece,
          peer_has, peer_pending, unrequested, chokes, nreq, added>>

(***************************************************************************)
(* Bounds and program constants                                            *)
(***************************************************************************)
NumPieces == 3          \* pieces of the torrent, peers that keep to the protocol
AnyPeerPieces == 2      \* pieces of the torrent, any peer
ScenarioPieces == 4     \* pieces of the torrent, cooperative peers
MaxOnDisk == 1
MaxUnrequested == 1
MaxChokes == 1
MaxPeerList == 10       \* longest peer list
CorruptPieces == 3      \* pieces of the torrent, a peer that serves wrong bytes
LastPiecePieces == 3    \* pieces of the torrent with a short last piece

block_size == 2
piece_length == 4
tolerance == 1
max_concurrent_pieces == 2
max_peers == 3
max_retries == 3
BitsPerByte == 8

Sessions == {"A", "B"}
Pieces == 0 .. (num_pieces - 1)
pieces_to_download == num_pieces
Offsets == {b * block_size : b \in 0 .. ((piece_length \div block_size) - 1)}
NoPiece == 0 - 1
NoSession == "none"
EmptyDict == [x \in {} |-> 0]
NoBitfield == [len |-> 0, bits |-> {}]
\* what the BITFIELD of each peer may advertise
BitfieldChoices ==
    [A |-> {{0, 2} \cap Pieces, Pieces}, B |-> {{1, 3} \cap Pieces, Pieces}]
\* the peers that may break the protocol
Dishonest == {"A"}

(***************************************************************************)
(* Helpers on dictionaries                                                 *)
(***************************************************************************)
Put(d, k, v) == [x \in (DOMAIN d) \cup {k} |-> IF x = k THEN v ELSE d[x]]

SetMin(S) == CHOOSE m \in S : \A x \in S : m <= x

RECURSIVE SumLens(_, _)
SumLens(blocks, offs) ==
    IF offs = {} THEN 0
    ELSE LET o == SetMin(offs) IN blocks[o] + SumLens(blocks, offs \ {o})

RECURSIVE Sequential(_, _, _)
Sequential(blocks, offs, expected_offset) ==
    IF offs = {} THEN TRUE
    ELSE LET o == SetMin(offs) IN
         IF o # expected_offset THEN FALSE
         ELSE Sequential(blocks, offs \ {o}, expected_offset + blocks[o])

\* piece_manager.is_piece_complete
is_piece_complete(pieces_dict, piece_index, expected_piece_length) ==
    /\ piece_index \in DOMAIN pieces_dict
    /\ DOMAIN pieces_dict[piece_index] # {}
    /\ ~ (SumLens(pieces_dict[piece_index], DOMAIN pieces_dict[piece_index])
            < expected_piece_length - tolerance)
    /\ Sequential(pieces_dict[piece_index], DOMAIN pieces_dict[piece_index], 0)

\* piece_manager.get_saved_pieces: every piece_XXXXX.bin file name counts
get_saved_pieces(d) == {p \in DOMAIN d : d[p] # "none"}

\* messages.parse_bitfield: eight flags per payload byte
parse_bitfield(bits) ==
    [len |-> BitsPerByte * ((num_pieces + BitsPerByte - 1) \div BitsPerByte),
     bits |-> bits]

Truthy(bf) == bf.len > 0

(***************************************************************************)
(* The claim loops of async_request_initial_blocks and                     *)
(* async_request_next_available_piece.  One call of the operator is the    *)
(* stretch of the loop from piece_index i to its next suspension point     *)
(* (the drain after a REQUEST) or to the end of the range.                 *)
(*   sd, sc : shared pieces_downloading / pieces_completed                 *)
(*   ld, lc : the session's own pieces_downloading / pieces_completed      *)
(* The result names the index requested (req, or NoPiece), the shared      *)
(* downloading set after the stretch, and the indices added to it.         *)
(***************************************************************************)
ScanBound(bf) == IF pieces_to_download < bf.len THEN pieces_to_download ELSE bf.len

\* the test without the look at the shared pieces_downloading
CanDownload_IgnoresDownloading(i, sc, sd) == i \notin sc

\* the test without the look at the shared pieces_completed
CanDownload_IgnoresCompleted(i, sc, sd) == i \notin sd

\* connection.py 360-367 / 423-430: the test made under the lock
CanDownload(i, sc, sd) == i \notin sc /\ i \notin sd

\* the request condition without the pipeline limit
InitialRequestOk_NoLimit(i, can, ld, lc, bf) ==
    can /\ i \notin lc /\ i \notin ld /\ i \in bf.bits

\* connection.py 369-373
InitialRequestOk(i, can, ld, lc, bf) ==
    /\ can
    /\ i \notin lc
    /\ i \notin ld
    /\ i \in bf.bits
    /\ Cardinality(ld) < max_concurrent_pieces

\* connection.py 432-435
NextRequestOk(i, can, ld, lc, bf) ==
    /\ can
    /\ i \notin lc
    /\ i \notin ld
    /\ i \in bf.bits

RECURSIVE InitialScan(_, _, _, _, _, _, _)
InitialScan(i, sd, sc, ld, lc, bf, add) ==
    IF i >= ScanBound(bf) THEN [req |-> NoPiece, sd |-> sd, add |-> add]
    ELSE LET can == CanDownload(i, sc, sd)
             sd2 == IF can THEN sd \cup {i} ELSE sd
             add2 == IF can THEN add \cup {i} ELSE add
         IN  IF InitialRequestOk(i, can, ld, lc, bf)
             THEN [req |-> i, sd |-> sd2, add |-> add2]
             ELSE InitialScan(i + 1, sd2, sc, ld, lc, bf, add2)

RECURSIVE NextAvailableScan(_, _, _, _, _, _, _)
NextAvailableScan(i, sd, sc, ld, lc, bf, add) ==
    IF i >= ScanBound(bf) THEN [req |-> NoPiece, sd |-> sd, add |-> add]
    ELSE LET can == CanDownload(i, sc, sd)
             sd2 == IF can THEN sd \cup {i} ELSE sd
             add2 == IF can THEN add \cup {i} ELSE add
         IN  IF NextRequestOk(i, can, ld, lc, bf)
             THEN [req |-> i, sd |-> sd2, add |-> add2]
             ELSE NextAvailableScan(i + 1, sd2, sc, ld, lc, bf, add2)

\* the bytes piece p has in the torrent; the last piece may be shorter
ExpectedLength(p) ==
    IF p = num_pieces - 1 THEN total_length - (num_pieces - 1) * piece_length
    ELSE piece_length

\* connection.py 382 / 444 / 496-497
request_length(offset) ==
    IF block_size < piece_length - offset THEN block_size ELSE piece_length - offset

Request(p, o) == [p |-> p, o |-> o, l |-> request_length(o)]

\* connection.py 376-379, 386-387: tracking initialised when a piece is started
StartTracking(d, p, empty) == IF p \in DOMAIN d THEN d ELSE Put(d, p, empty)

\* connection.py 473-478
blocks_needed(piece_index) ==
    IF piece_index = num_pieces - 1
    THEN (piece_length + block_size - 1) \div block_size
    ELSE piece_length \div block_size

\* connection.py 484-493: the offsets async_request_next_blocks may request
Requestable(pr, br, p) ==
    {o \in {b * block_size : b \in 0 .. (blocks_needed(p) - 1)} :
        /\ o \notin DOMAIN pr[p]
        /\ ~ (p \in DOMAIN br /\ o \in br[p])}

\* connection.py 470-511: the offset requested, or NoPiece
next_block_offset(pr, br, p) ==
    IF p \notin DOMAIN pr THEN NoPiece
    ELSE IF Requestable(pr, br, p) = {} THEN NoPiece
    ELSE SetMin(Requestable(pr, br, p))

\* the guard without the look at the choke state
NextBlocksGuard_IgnoresChoke(unch, bf, p) == Truthy(bf) /\ p \in bf.bits

\* connection.py 306: the guard of the call of async_request_next_blocks
NextBlocksGuard(unch, bf, p) == unch /\ Truthy(bf) /\ p \in bf.bits

\* connection.py 293: the guard of the call of async_request_next_available_piece
NextPieceGuard(unch, bf, ld) ==
    unch /\ Truthy(bf) /\ Cardinality(ld) < max_concurrent_pieces

\* connection.py 223 and 256: the guards of the calls of async_request_initial_blocks
TimeoutScanGuard(unch, bf) == unch /\ Truthy(bf)
UnchokeScanGuard(bf) == Truthy(bf)

\* connection.py 187: the condition of the message loop
LoopCondition(lc) == Cardinality(lc) < pieces_to_download

(***************************************************************************)
(* Initial state: connect() has not run yet; the piece directory holds     *)
(* (valid) files for some of the first MaxOnDisk pieces of a torrent of n  *)
(* pieces.                                                                 *)
(***************************************************************************)
DiskChoices ==
    {d \in [Pieces -> {"none", "good"}] :
        \A p \in Pieces : p >= MaxOnDisk => d[p] = "none"}

(***************************************************************************)
(* Byte strings.  A bytes object is a sequence of numbers 0 .. 255; b[i:j] *)
(* is Slice(b, i, j).                                                      *)
(***************************************************************************)
Repeat(b, n) == [i \in 1 .. n |-> b]

Slice(b, i, j) == SubSeq(b, i + 1, IF j < Len(b) THEN j ELSE Len(b))

\* Python's None where bytes or a tuple are expected: no byte string, no triple
None == <<0 - 1>>

\* Python's None where a message id is expected: no byte
NoneId == 0 - 1

(***************************************************************************)
(* handshake.py                                                            *)
(***************************************************************************)
\* 1: b'BitTorrent protocol'
PROTOCOL == <<66, 105, 116, 84, 111, 114, 114, 101, 110, 116, 32,
              112, 114, 111, 116, 111, 99, 111, 108>>

HashLength == 20
HandshakeLength == 68
ReservedLength == 8
ProtocolLength == 19

\* 23-26: the ValueError of construct_handshake
ConstructRaises(ih, pid) == Len(ih) # HashLength \/ Len(pid) # HashLength

\* 15-32, for arguments that pass 23-26
construct_handshake(ih, pid) ==
    <<ProtocolLength>> \o PROTOCOL \o Repeat(0, ReservedLength) \o ih \o pid

\* a parse that does not look at the first byte
ParseRaises_AnyFirstByte(d) ==
    \/ Len(d) # HandshakeLength
    \/ Slice(d, 1, 20) # PROTOCOL

\* 44-45, 55-59: the ValueError of parse_handshake
ParseRaises(d) ==
    \/ Len(d) # HandshakeLength
    \/ d[1] # ProtocolLength
    \/ Slice(d, 1, 20) # PROTOCOL

\* 48-52, 61: (protocol_string, reserved_bytes, info_hash, peer_id)
parse_handshake(d) ==
    <<Slice(d, 1, 20), Slice(d, 20, 28), Slice(d, 28, 48), Slice(d, 48, 68)>>

\* a validation that does not compare the info hash
validate_handshake_AnyHash(d, expected) ==
    IF ParseRaises(d) THEN <<FALSE, None>>
    ELSE <<TRUE, parse_handshake(d)[4]>>

\* 74-85
validate_handshake(d, expected) ==
    IF ParseRaises(d) THEN <<FALSE, None>>
    ELSE IF parse_handshake(d)[3] # expected THEN <<FALSE, None>>
    ELSE <<TRUE, parse_handshake(d)[4]>>

HandshakeAtRest ==
    /\ info_hash = << >>
    /\ peer_id = << >>
    /\ expected_info_hash = << >>
    /\ handshake_data = << >>
    /\ validated = None
    /\ handshake_pc = "rest"

(***************************************************************************)
(* messages.py                                                             *)
(***************************************************************************)
MSG_CANCEL == 8

\* struct.pack('>I', n) for n < 2^32
pack_I(n) == <<(n \div 16777216) % 256, (n \div 65536) % 256,
               (n \div 256) % 256, n % 256>>

\* struct.unpack('>I', b)[0] for four bytes b
unpack_I(b) == b[1] * 16777216 + b[2] * 65536 + b[3] * 256 + b[4]

\* 35-36
create_message(m, P) == pack_I(1 + Len(P)) \o <<m>> \o P

\* a parse that takes a frame as complete once its id byte is there
parse_message_Eager(d) ==
    IF Len(d) < 4 THEN None
    ELSE IF unpack_I(Slice(d, 0, 4)) = 0 THEN <<NoneId, << >>, 4>>
    ELSE IF Len(d) < 5 THEN None
    ELSE <<d[5],
           IF unpack_I(Slice(d, 0, 4)) > 1
           THEN Slice(d, 5, 5 + unpack_I(Slice(d, 0, 4)) - 1) ELSE << >>,
           4 + unpack_I(Slice(d, 0, 4))>>

\* a parse that takes one byte too many for the payload
parse_message_LongPayload(d) ==
    IF Len(d) < 4 THEN None
    ELSE IF unpack_I(Slice(d, 0, 4)) = 0 THEN <<NoneId, << >>, 4>>
    ELSE IF Len(d) < 4 + unpack_I(Slice(d, 0, 4)) THEN None
    ELSE <<d[5],
           IF unpack_I(Slice(d, 0, 4)) > 1
           THEN Slice(d, 5, 5 + unpack_I(Slice(d, 0, 4))) ELSE << >>,
           4 + unpack_I(Slice(d, 0, 4))>>

\* 104-125
parse_message(d) ==
    IF Len(d) < 4 THEN None
    ELSE IF unpack_I(Slice(d, 0, 4)) = 0 THEN <<NoneId, << >>, 4>>
    ELSE IF Len(d) < 4 + unpack_I(Slice(d, 0, 4)) THEN None
    ELSE <<d[5],
           IF unpack_I(Slice(d, 0, 4)) > 1
           THEN Slice(d, 5, 5 + unpack_I(Slice(d, 0, 4)) - 1) ELSE << >>,
           4 + unpack_I(Slice(d, 0, 4))>>

FramingAtRest ==
    /\ message_id = NoneId
    /\ payload = << >>
    /\ rest = << >>
    /\ data = << >>
    /\ parsed = None
    /\ framing_pc = "rest"

\* 21: KEEP_ALIVE
KEEP_ALIVE == <<0, 0, 0, 0>>

StreamAtRest ==
    /\ sent = << >>
    /\ wire = << >>
    /\ buffer = << >>
    /\ received = << >>
    /\ stream_pc = "rest"

AsmAtRest ==
    /\ files = << >>
    /\ asm_total_length = 0
    /\ saved_pieces = {}
    /\ piece_files = << >>
    /\ file_no = 1
    /\ remaining = 0
    /\ current_piece_index = 0
    /\ current_piece_offset = 0
    /\ current_piece_data = None
    /\ asm_piece_index = 0
    /\ bytes_written = 0
    /\ out_files = << >>
    /\ asm_pc = "rest"

IpcAtRest ==
    /\ ipc_pieces_dict = EmptyDict
    /\ ipc_piece_index = 0
    /\ ipc_result = FALSE
    /\ ipc_pc = "rest"

HistAtRest == short_piece = {}

ConnAtRest ==
    /\ writer = << >>
    /\ conn_pc = << >>
    /\ conn_result = << >>

LockAtRest ==
    /\ lock = "none"
    /\ can_download = << >>

VerifyAtRest ==
    /\ vs_piece_index = 0
    /\ vs_pieces_dict = EmptyDict
    /\ piece_hashes = << >>
    /\ vs_file = None
    /\ vs_piece_data = None
    /\ vs_result = FALSE
    /\ vs_pc = "rest"

ToolsAtRest == IpcAtRest /\ ConnAtRest /\ LockAtRest /\ VerifyAtRest /\ HistAtRest

CodecAtRest ==
    HandshakeAtRest /\ FramingAtRest /\ StreamAtRest /\ AsmAtRest /\ ToolsAtRest

(***************************************************************************)
(* connection.py 64-117: the handshake of a session                        *)
(***************************************************************************)
\* the info hash of the torrent and the identifiers of the two ends
OurInfoHash == Repeat(1, HashLength)
OurPeerId == Repeat(2, HashLength)
TheirPeerId == Repeat(3, HashLength)

\* what a peer of the same torrent answers
GoodResponse == construct_handshake(OurInfoHash, TheirPeerId)

\* 101-107: is_valid of validate_handshake(handshake_response, info_hash)
HandshakeOk(s) == validate_handshake(handshake_response[s], OurInfoHash)[1]

LinkAtRest ==
    /\ handshake_response = [s \in Sessions |-> GoodResponse]
    /\ interested = [s \in Sessions |-> FALSE]

\* connect() as the supervisor of batches, before its loop, for a list of
\* n peers
InitBatches(n) ==
    /\ peer_list_len = n
    /\ batch = 0
    /\ peer_index = 0
    /\ cpc = "loop"
    /\ task = [i \in 0 .. (n - 1) |-> "new"]
    /\ starts = [i \in 0 .. (n - 1) |-> 0]
    /\ batch_peers = {}
    /\ successful_connections = << >>
    /\ running_tasks = << >>
    /\ connect_result = "pending"
    /\ probe_live = FALSE

InitPiecesOn(n, disks) ==
    /\ num_pieces = n
    /\ CodecAtRest
    /\ InitBatches(0)
    /\ corrupt = [s \in Sessions |-> {}]
    /\ returned = NoSession
    /\ sup = "init"
    /\ disk \in disks
    /\ shared_pieces_completed = {}
    /\ shared_pieces_downloading = {}
    /\ pc = [s \in Sessions |-> "new"]
    /\ result = [s \in Sessions |-> "none"]
    /\ bitfield = [s \in Sessions |-> NoBitfield]
    /\ unchoked = [s \in Sessions |-> FALSE]
    /\ pieces_received = [s \in Sessions |-> EmptyDict]
    /\ blocks_requested = [s \in Sessions |-> EmptyDict]
    /\ pieces_downloading = [s \in Sessions |-> {}]
    /\ pieces_completed = [s \in Sessions |-> {}]
    /\ scan_idx = [s \in Sessions |-> 0]
    /\ scan_ret = [s \in Sessions |-> "read"]
    /\ cur_piece = [s \in Sessions |-> NoPiece]
    /\ peer_has \in {h \in [Sessions -> SUBSET Pieces] :
                        \A s \in Sessions : h[s] \in BitfieldChoices[s]}
    /\ peer_pending = [s \in Sessions |-> {}]
    /\ unrequested = 0
    /\ chokes = 0
    /\ nreq = [s \in Sessions |-> [k \in Pieces \X Offsets |-> 0]]
    /\ added = [s \in Sessions |-> {}]

InitPieces(n) == InitPiecesOn(n, DiskChoices)

\* pieces_dir holds files that a crash left with only a part of their bytes
PartialDiskChoices ==
    {d \in [Pieces -> {"none", "partial"}] :
        /\ \A p \in Pieces : p >= MaxOnDisk => d[p] = "none"
        /\ \E p \in Pieces : d[p] = "partial"}

InitPartialDisk ==
    /\ total_length = ScenarioPieces * piece_length
    /\ LinkAtRest
    /\ InitPiecesOn(ScenarioPieces, PartialDiskChoices)

\* a torrent of n whole pieces
InitSessions(n) == LinkAtRest /\ InitPieces(n)

InitWith(n) == total_length = n * piece_length /\ InitSessions(n)

\* the session engine at rest: the variables that the batches of connect()
\* do not look at
SessionsIdle(n) ==
    /\ num_pieces = n
    /\ LinkAtRest
    /\ total_length = n * piece_length
    /\ corrupt = [s \in Sessions |-> {}]
    /\ returned = NoSession
    /\ sup = "init"
    /\ disk = [p \in Pieces |-> "none"]
    /\ shared_pieces_completed = {}
    /\ shared_pieces_downloading = {}
    /\ pc = [s \in Sessions |-> "new"]
    /\ result = [s \in Sessions |-> "none"]
    /\ bitfield = [s \in Sessions |-> NoBitfield]
    /\ unchoked = [s \in Sessions |-> FALSE]
    /\ pieces_received = [s \in Sessions |-> EmptyDict]
    /\ blocks_requested = [s \in Sessions |-> EmptyDict]
    /\ pieces_downloading = [s \in Sessions |-> {}]
    /\ pieces_completed = [s \in Sessions |-> {}]
    /\ scan_idx = [s \in Sessions |-> 0]
    /\ scan_ret = [s \in Sessions |-> "read"]
    /\ cur_piece = [s \in Sessions |-> NoPiece]
    /\ peer_has = [s \in Sessions |-> {}]
    /\ peer_pending = [s \in Sessions |-> {}]
    /\ unrequested = 0
    /\ chokes = 0
    /\ nreq = [s \in Sessions |-> [k \in Pieces \X Offsets |-> 0]]
    /\ added = [s \in Sessions |-> {}]

SessionsAtRest(n) == SessionsIdle(n) /\ ToolsAtRest

InitConnect ==
    /\ SessionsAtRest(0)
    /\ CodecAtRest
    /\ \E n \in 0 .. MaxPeerList : InitBatches(n)

Init == InitWith(AnyPeerPieces)

InitHonest == InitWith(NumPieces)

InitCooperative == InitWith(ScenarioPieces) /\ disk = [p \in Pieces |-> "none"]

InitCorrupt == InitWith(CorruptPieces) /\ disk = [p \in Pieces |-> "none"]

\* a torrent whose length is not a multiple of piece_length
InitLastPiece ==
    /\ total_length \in {(LastPiecePieces - 1) * piece_length + k :
                            k \in 1 .. (piece_length - 1)}
    /\ InitSessions(LastPiecePieces)
    /\ disk = [p \in Pieces |-> "none"]

(***************************************************************************)
(* connect(): the shared state is created and seeded from the piece files  *)
(* before the tasks of the sessions are created (connection.py 565-598).   *)
(***************************************************************************)
SeedCompleted(d) == get_saved_pieces(d)

ConnectSeed ==
    /\ sup = "init"
    /\ sup' = "running"
    /\ shared_pieces_completed' = SeedCompleted(disk)
    /\ shared_pieces_downloading' = {}
    /\ UNCHANGED <<extVars, num_pieces, disk, pc, result, bitfield, unchoked, pieces_received,
                   blocks_requested, pieces_downloading, pieces_completed,
                   scan_idx, scan_ret, cur_piece, peer_has, peer_pending,
                   unrequested, chokes, nreq, added>>

(***************************************************************************)
(* async_exchange_messages, 137-184: the handshake succeeded, the session  *)
(* copies the shared sets and sends INTERESTED.                            *)
(***************************************************************************)
Start(s) ==
    /\ sup = "running"
    /\ pc[s] = "new"
    /\ HandshakeOk(s)
    /\ interested' = [interested EXCEPT ![s] = TRUE]
    /\ pieces_completed' = [pieces_completed EXCEPT ![s] = shared_pieces_completed]
    /\ pieces_downloading' = [pieces_downloading EXCEPT ![s] = shared_pieces_downloading]
    /\ pc' = [pc EXCEPT ![s] = "read"]
    /\ UNCHANGED <<handshake_response, total_length, corrupt, returned, batchVars,
                   codecVars, num_pieces, sup, disk, shared_pieces_completed, shared_pieces_downloading,
                   result, bitfield, unchoked, pieces_received, blocks_requested,
                   scan_idx, scan_ret, cur_piece, peer_has, peer_pending,
                   unrequested, chokes, nreq, added>>

\* The session is at reader.read (loop condition true) or inside the inner
\* loop over the frames of the chunk it read.
CanRecv(s) ==
    \/ pc[s] = "parse"
    \/ pc[s] = "read" /\ LoopCondition(pieces_completed[s])

\* 232-235 then 187: after a frame the inner loop goes on with the frames left
\* in the chunk; when there are none the session is back at the loop
\* condition.  While the condition holds both positions accept the same
\* frames, so "parse" is kept apart only when the condition fails.
AfterFrame(lc) == IF LoopCondition(lc) THEN "read" ELSE "parse"

(***************************************************************************)
(* async_exchange_messages returns res (318-321 or 323-327): its locals    *)
(* other than the returned pieces_received are gone, and so are the        *)
(* REQUESTs the peer still held for the closed connection.  The sets       *)
(* pieces_completed and the history of the session are kept for the        *)
(* properties.                                                             *)
(***************************************************************************)
Returns(s, res) ==
    /\ pc' = [pc EXCEPT ![s] = "done"]
    /\ result' = [result EXCEPT ![s] = res]
    /\ bitfield' = [bitfield EXCEPT ![s] = NoBitfield]
    /\ unchoked' = [unchoked EXCEPT ![s] = FALSE]
    /\ blocks_requested' = [blocks_requested EXCEPT ![s] = EmptyDict]
    /\ pieces_downloading' = [pieces_downloading EXCEPT ![s] = {}]
    /\ peer_pending' = [peer_pending EXCEPT ![s] = {}]
    /\ UNCHANGED <<num_pieces, sup, disk, shared_pieces_completed,
                   shared_pieces_downloading, pieces_received, pieces_completed,
                   scan_idx, scan_ret, cur_piece, peer_has, unrequested, chokes,
                   nreq, added>>

Return(s, res) == Returns(s, res) /\ UNCHANGED extVars

\* 323-327: what async_exchange_messages returns when its body raises
ExchangeError_Dict == "dict"

ExchangeError == "None"

\* 187, 314-321: the loop condition fails, the session returns its result
LoopExit(s) ==
    /\ pc[s] = "read"
    /\ ~ LoopCondition(pieces_completed[s])
    /\ Return(s, "dict")

\* 199-202, 314-321: read returns no data, the session breaks and returns
PeerClose(s) ==
    /\ pc[s] = "read"
    /\ LoopCondition(pieces_completed[s])
    /\ Return(s, "dict")

\* 232-235: parse_message finds no further complete frame in the buffer
EndChunk(s) ==
    /\ pc[s] = "parse"
    /\ pc' = [pc EXCEPT ![s] = "read"]
    /\ UNCHANGED <<extVars, num_pieces, sup, disk, shared_pieces_completed, shared_pieces_downloading,
                   result, bitfield, unchoked, pieces_received, blocks_requested,
                   pieces_downloading, pieces_completed, scan_idx, scan_ret,
                   cur_piece, peer_has, peer_pending, unrequested, chokes, nreq, added>>

(***************************************************************************)
(* One stretch of async_request_initial_blocks (351-392) from index i;     *)
(* ret is the position the caller continues at when the loop is over.      *)
(***************************************************************************)
InitialSegment(s, i, ret) ==
    \E r \in {InitialScan(i, shared_pieces_downloading, shared_pieces_completed,
                           pieces_downloading[s], pieces_completed[s],
                           bitfield[s], {})} :
    \E ld2 \in {pieces_downloading[s] \cup {r.req}} :
        /\ shared_pieces_downloading' = r.sd
        /\ added' = [added EXCEPT ![s] = @ \cup r.add]
        /\ IF r.req = NoPiece
           THEN /\ pc' = [pc EXCEPT ![s] = ret]
                /\ scan_idx' = [scan_idx EXCEPT ![s] = 0]
                /\ scan_ret' = [scan_ret EXCEPT ![s] = "read"]
                /\ UNCHANGED <<pieces_received, blocks_requested,
                               pieces_downloading, nreq, peer_pending>>
           ELSE /\ pieces_received' = [pieces_received EXCEPT
                        ![s] = StartTracking(@, r.req, EmptyDict)]
                /\ blocks_requested' = [blocks_requested EXCEPT
                        ![s] = Put(@, r.req, StartTracking(@, r.req, {})[r.req] \cup {0})]
                /\ pieces_downloading' = [pieces_downloading EXCEPT ![s] = ld2]
                /\ nreq' = [nreq EXCEPT ![s][<<r.req, 0>>] = @ + 1]
                /\ peer_pending' = [peer_pending EXCEPT ![s] = @ \cup {Request(r.req, 0)}]
                /\ pc' = [pc EXCEPT ![s] = "scan"]
                /\ scan_idx' = [scan_idx EXCEPT ![s] =
                        IF Cardinality(ld2) >= max_concurrent_pieces
                        THEN ScanBound(bitfield[s]) ELSE r.req + 1]
                /\ scan_ret' = [scan_ret EXCEPT ![s] = ret]

\* the task resumes after the drain of a REQUEST inside the claim loop
ScanStep(s) ==
    /\ pc[s] = "scan"
    /\ InitialSegment(s, scan_idx[s], scan_ret[s])
    /\ UNCHANGED <<extVars, num_pieces, sup, disk, shared_pieces_completed, result, bitfield, unchoked,
                   pieces_completed, cur_piece, peer_has, unrequested, chokes>>

\* 204-229: the read times out
Timeout(s) ==
    /\ pc[s] = "read"
    /\ LoopCondition(pieces_completed[s])
    /\ IF /\ Cardinality(pieces_downloading[s]) = 0
          /\ TimeoutScanGuard(unchoked[s], bitfield[s])
       THEN InitialSegment(s, 0, "read")
       ELSE UNCHANGED <<pc, shared_pieces_downloading, added, pieces_received,
                        blocks_requested, pieces_downloading, nreq, peer_pending,
                        scan_idx, scan_ret>>
    /\ UNCHANGED <<extVars, num_pieces, sup, disk, shared_pieces_completed, result, bitfield, unchoked,
                   pieces_completed, cur_piece, peer_has, unrequested, chokes>>

\* 245-248: BITFIELD (a peer sends it once)
RecvBitfield(s) ==
    /\ CanRecv(s)
    /\ ~ Truthy(bitfield[s])
    /\ bitfield' = [bitfield EXCEPT ![s] = parse_bitfield(peer_has[s])]
    /\ pc' = [pc EXCEPT ![s] = AfterFrame(pieces_completed[s])]
    /\ UNCHANGED <<extVars, num_pieces, sup, disk, shared_pieces_completed, shared_pieces_downloading,
                   result, unchoked, pieces_received, blocks_requested,
                   pieces_downloading, pieces_completed, scan_idx, scan_ret,
                   cur_piece, peer_has, peer_pending, unrequested, chokes, nreq, added>>

\* BITFIELD payloads that do not fit the torrent: a flag set in the padding,
\* a flag set for an index that is no piece, a byte too many
MalformedBitfields ==
    {[len |-> parse_bitfield({}).len, bits |-> {0, parse_bitfield({}).len - 1}],
     [len |-> parse_bitfield({}).len, bits |-> {1, num_pieces}],
     [len |-> parse_bitfield({}).len + BitsPerByte, bits |-> Pieces]}

\* 245-248 for such a payload
RecvMalformedBitfield(s, bf) ==
    /\ CanRecv(s)
    /\ ~ Truthy(bitfield[s])
    /\ bitfield' = [bitfield EXCEPT ![s] = bf]
    /\ pc' = [pc EXCEPT ![s] = AfterFrame(pieces_completed[s])]
    /\ UNCHANGED <<extVars, num_pieces, sup, disk, shared_pieces_completed, shared_pieces_downloading,
                   result, unchoked, pieces_received, blocks_requested,
                   pieces_downloading, pieces_completed, scan_idx, scan_ret,
                   cur_piece, peer_has, peer_pending, unrequested, chokes, nreq, added>>

\* 251-260: UNCHOKE
RecvUnchoke(s) ==
    /\ CanRecv(s)
    /\ ~ unchoked[s]
    /\ unchoked' = [unchoked EXCEPT ![s] = TRUE]
    /\ IF UnchokeScanGuard(bitfield[s])
       THEN InitialSegment(s, 0, AfterFrame(pieces_completed[s]))
       ELSE /\ pc' = [pc EXCEPT ![s] = AfterFrame(pieces_completed[s])]
            /\ UNCHANGED <<shared_pieces_downloading, added, pieces_received,
                           blocks_requested, pieces_downloading, nreq,
                           peer_pending, scan_idx, scan_ret>>
    /\ UNCHANGED <<extVars, num_pieces, sup, disk, shared_pieces_completed, result, bitfield,
                   pieces_completed, cur_piece, peer_has, unrequested, chokes>>

\* 263-265: CHOKE; a choking peer may discard the requests it has not served
RecvChoke(s) ==
    /\ CanRecv(s)
    /\ unchoked[s]
    /\ chokes < MaxChokes
    /\ chokes' = chokes + 1
    /\ unchoked' = [unchoked EXCEPT ![s] = FALSE]
    /\ pc' = [pc EXCEPT ![s] = AfterFrame(pieces_completed[s])]
    /\ \E dropped \in {{}, peer_pending[s]} :
          peer_pending' = [peer_pending EXCEPT ![s] = @ \ dropped]
    /\ UNCHANGED <<extVars, num_pieces, sup, disk, shared_pieces_completed, shared_pieces_downloading,
                   result, bitfield, pieces_received, blocks_requested,
                   pieces_downloading, pieces_completed, scan_idx, scan_ret,
                   cur_piece, peer_has, unrequested, nreq, added>>

\* 240-242, 310-312: keep-alive, HAVE and the other frames change nothing
RecvOther(s) ==
    /\ CanRecv(s)
    /\ pc' = [pc EXCEPT ![s] = AfterFrame(pieces_completed[s])]
    /\ UNCHANGED <<extVars, num_pieces, sup, disk, shared_pieces_completed, shared_pieces_downloading,
                   result, bitfield, unchoked, pieces_received, blocks_requested,
                   pieces_downloading, pieces_completed, scan_idx, scan_ret,
                   cur_piece, peer_has, peer_pending, unrequested, chokes, nreq, added>>

(***************************************************************************)
(* 305-308 with async_request_next_blocks (470-511) on the dictionaries pr *)
(* and br: the offset requested (NoPiece when none) and the new            *)
(* blocks_requested.                                                       *)
(***************************************************************************)
NextBlocks(unch, bf, pr, br, p) ==
    LET o == IF NextBlocksGuard(unch, bf, p)
             THEN next_block_offset(pr, br, p) ELSE NoPiece
    IN  [off |-> o,
         br |-> IF o = NoPiece THEN br
                ELSE Put(br, p, StartTracking(br, p, {})[p] \cup {o})]

(***************************************************************************)
(* 268-308: a PIECE frame (p, o, block of length l); pend is what the peer *)
(* still has to answer.                                                    *)
(***************************************************************************)
HandlePiece(s, p, o, l, pend) ==
    LET pr0 == pieces_received[s]
        br0 == blocks_requested[s]
    IN
    \* 270-276: the block is stored and is no longer outstanding
    \E pr1 \in {Put(pr0, p, Put(StartTracking(pr0, p, EmptyDict)[p], o, l))} :
    \E br1 \in {IF p \in DOMAIN br0 THEN [br0 EXCEPT ![p] = @ \ {o}] ELSE br0} :
    \* 279-280
    \E newly \in {is_piece_complete(pr1, p, piece_length)
                     /\ p \notin pieces_completed[s]} :
    LET lc1 == IF newly THEN pieces_completed[s] \cup {p} ELSE pieces_completed[s]
        ld1 == IF newly THEN pieces_downloading[s] \ {p} ELSE pieces_downloading[s]
        sc1 == IF newly THEN shared_pieces_completed \cup {p}
               ELSE shared_pieces_completed
        sd1 == IF newly THEN shared_pieces_downloading \ {p}
               ELSE shared_pieces_downloading
    IN
    \* 293-297: the next piece claimed; 306-308: the next block of this piece
    \E r \in {IF newly /\ NextPieceGuard(unchoked[s], bitfield[s], ld1)
               THEN NextAvailableScan(0, sd1, sc1, ld1, lc1, bitfield[s], {})
               ELSE [req |-> NoPiece, sd |-> sd1, add |-> {}]} :
    \E nb \in {NextBlocks(unchoked[s], bitfield[s], pr1, br1, p)} :
        /\ pieces_completed' = [pieces_completed EXCEPT ![s] = lc1]
        /\ shared_pieces_completed' = sc1
        /\ shared_pieces_downloading' = r.sd
        /\ added' = [added EXCEPT ![s] = @ \cup r.add]
        /\ IF r.req # NoPiece
           THEN \* a new piece was started; the task is suspended in its drain
                /\ pieces_received' = [pieces_received EXCEPT
                        ![s] = StartTracking(pr1, r.req, EmptyDict)]
                /\ blocks_requested' = [blocks_requested EXCEPT
                        ![s] = Put(br1, r.req, StartTracking(br1, r.req, {})[r.req] \cup {0})]
                /\ pieces_downloading' = [pieces_downloading EXCEPT
                        ![s] = ld1 \cup {r.req}]
                /\ nreq' = [nreq EXCEPT ![s][<<r.req, 0>>] = @ + 1]
                /\ peer_pending' = [peer_pending EXCEPT
                        ![s] = pend \cup {Request(r.req, 0)}]
                /\ pc' = [pc EXCEPT ![s] = "next_blocks"]
                /\ cur_piece' = [cur_piece EXCEPT ![s] = p]
           ELSE /\ pieces_received' = [pieces_received EXCEPT ![s] = pr1]
                /\ blocks_requested' = [blocks_requested EXCEPT ![s] = nb.br]
                /\ pieces_downloading' = [pieces_downloading EXCEPT ![s] = ld1]
                /\ nreq' = IF nb.off = NoPiece THEN nreq
                           ELSE [nreq EXCEPT ![s][<<p, nb.off>>] = @ + 1]
                /\ peer_pending' = [peer_pending EXCEPT ![s] =
                        IF nb.off = NoPiece THEN pend
                        ELSE pend \cup {Request(p, nb.off)}]
                /\ pc' = [pc EXCEPT ![s] = AfterFrame(lc1)]
                /\ UNCHANGED cur_piece

\* the bytes of the piece a peer can send for the REQUEST r
ServedLength(r) ==
    IF r.o + r.l <= ExpectedLength(r.p) THEN r.l
    ELSE IF r.o < ExpectedLength(r.p) THEN ExpectedLength(r.p) - r.o
    ELSE 0

\* the peer answers one of the REQUESTs it holds
RecvPiece(s, r) ==
    /\ CanRecv(s)
    /\ r \in peer_pending[s]
    /\ ServedLength(r) > 0
    /\ HandlePiece(s, r.p, r.o, ServedLength(r), peer_pending[s] \ {r})
    /\ UNCHANGED <<extVars, num_pieces, sup, disk, result, bitfield, unchoked, scan_idx, scan_ret,
                   peer_has, unrequested, chokes>>

\* the peer answers a REQUEST with a block of the right length and wrong
\* bytes: 268-308 store it like any other block
RecvCorruptPiece(s, r) ==
    /\ CanRecv(s)
    /\ r \in peer_pending[s]
    /\ HandlePiece(s, r.p, r.o, r.l, peer_pending[s] \ {r})
    /\ corrupt' = [corrupt EXCEPT ![s] = @ \cup {r.p}]
    /\ UNCHANGED <<handshake_response, interested, codecVars, total_length, returned,
                   batchVars, num_pieces, sup, disk, result,
                   bitfield, unchoked, scan_idx, scan_ret, peer_has, unrequested, chokes>>

\* the peer discards a REQUEST that reaches beyond the end of the piece
PeerRejects(s, r) ==
    /\ r \in peer_pending[s]
    /\ r.o + r.l > ExpectedLength(r.p)
    /\ peer_pending' = [peer_pending EXCEPT ![s] = @ \ {r}]
    /\ UNCHANGED <<extVars, num_pieces, sup, disk, shared_pieces_completed,
                   shared_pieces_downloading, pc, result, bitfield, unchoked,
                   pieces_received, blocks_requested, pieces_downloading,
                   pieces_completed, scan_idx, scan_ret, cur_piece, peer_has,
                   unrequested, chokes, nreq, added>>

\* 305-308 after the drain of the REQUEST of async_request_next_available_piece
NextBlocksStep(s) ==
    /\ pc[s] = "next_blocks"
    /\ \E nb \in {NextBlocks(unchoked[s], bitfield[s], pieces_received[s],
                              blocks_requested[s], cur_piece[s])} :
        /\ blocks_requested' = [blocks_requested EXCEPT ![s] = nb.br]
        /\ nreq' = IF nb.off = NoPiece THEN nreq
                   ELSE [nreq EXCEPT ![s][<<cur_piece[s], nb.off>>] = @ + 1]
        /\ peer_pending' = IF nb.off = NoPiece THEN peer_pending
                           ELSE [peer_pending EXCEPT
                                   ![s] = @ \cup {Request(cur_piece[s], nb.off)}]
        /\ pc' = [pc EXCEPT ![s] = AfterFrame(pieces_completed[s])]
        /\ cur_piece' = [cur_piece EXCEPT ![s] = NoPiece]
        /\ UNCHANGED <<extVars, num_pieces, sup, disk, shared_pieces_completed,
                       shared_pieces_downloading, result, bitfield, unchoked,
                       pieces_received, pieces_downloading, pieces_completed,
                       scan_idx, scan_ret, peer_has, unrequested, chokes, added>>

(***************************************************************************)
(* Frames of a peer that does not keep to the protocol.                    *)
(***************************************************************************)
UnrequestedFrames == {[p |-> p, o |-> o, l |-> l] :
                        p \in Pieces, o \in Offsets, l \in {block_size, piece_length}}

\* a PIECE frame nobody asked for
RecvUnrequestedPiece(s, f) ==
    /\ CanRecv(s)
    /\ unrequested < MaxUnrequested
    /\ f \notin peer_pending[s]
    /\ unrequested' = unrequested + 1
    /\ HandlePiece(s, f.p, f.o, f.l, peer_pending[s])
    /\ UNCHANGED <<extVars, num_pieces, sup, disk, result, bitfield, unchoked, scan_idx, scan_ret,
                   peer_has, chokes>>

\* PIECE frames nobody asked for whose block_offset is any byte of the piece
AnyOffsetFrames == {[p |-> p, o |-> o, l |-> block_size] :
                        p \in Pieces, o \in 0 .. (piece_length - 1)}

\* 269 with messages.py 170-171, 323-327: a PIECE frame shorter than 8 bytes
\* raises, and async_exchange_messages returns None
RecvMalformedPiece(s) ==
    /\ CanRecv(s)
    /\ Returns(s, ExchangeError)
    /\ short_piece' = short_piece \cup {s}
    /\ UNCHANGED quietVars

(***************************************************************************)
(* Specifications                                                          *)
(***************************************************************************)
SessionStep(s) ==
    \/ Start(s)
    \/ LoopExit(s)
    \/ EndChunk(s)
    \/ ScanStep(s)
    \/ NextBlocksStep(s)
    \/ Timeout(s)

PeerStep(s) ==
    \/ RecvBitfield(s)
    \/ RecvUnchoke(s)
    \/ RecvChoke(s)
    \/ RecvOther(s)
    \/ PeerClose(s)
    \/ \E r \in peer_pending[s] : RecvPiece(s, r)

\* peers that keep to the protocol
NextHonest ==
    \/ ConnectSeed
    \/ \E s \in Sessions : SessionStep(s)
    \/ \E s \in Sessions : PeerStep(s)

\* any peer
Next ==
    \/ NextHonest
    \/ \E s \in Dishonest : RecvMalformedPiece(s)
    \/ \E s \in Dishonest : \E f \in UnrequestedFrames : RecvUnrequestedPiece(s, f)

\* peers that keep to the frames of the protocol and send their BITFIELD
\* only after an UNCHOKE, while the session is unchoked
NextUnchokeFirst ==
    \/ ConnectSeed
    \/ \E s \in Sessions : SessionStep(s)
    \/ \E s \in Sessions : unchoked[s] /\ RecvBitfield(s)
    \/ \E s \in Sessions : RecvUnchoke(s)
    \/ \E s \in Sessions : RecvChoke(s)
    \/ \E s \in Sessions : RecvOther(s)
    \/ \E s \in Sessions : PeerClose(s)
    \/ \E s \in Sessions : \E r \in peer_pending[s] : RecvPiece(s, r)

SpecUnchokeFirst == InitHonest /\ [][NextUnchokeFirst]_vars

\* peers of which one may send a BITFIELD that does not fit the torrent
NextAnyBitfield ==
    \/ NextHonest
    \/ \E s \in Dishonest : \E bf \in MalformedBitfields : RecvMalformedBitfield(s, bf)

InitAnyBitfield == InitWith(NumPieces) /\ disk = [p \in Pieces |-> "none"]

SpecAnyBitfield == InitAnyBitfield /\ [][NextAnyBitfield]_vars

\* peers that keep to the protocol, piece files left by a crash
SpecPartialDisk == InitPartialDisk /\ [][NextHonest]_vars

\* peers that send their BITFIELD first, then unchoke, answer every REQUEST
\* and never choke again or close
CooperativePeerStep(s) ==
    \/ RecvBitfield(s)
    \/ Truthy(bitfield[s]) /\ RecvUnchoke(s)
    \/ \E r \in peer_pending[s] : RecvPiece(s, r)

NextCooperative ==
    \/ ConnectSeed
    \/ \E s \in Sessions : SessionStep(s)
    \/ \E s \in Sessions : CooperativePeerStep(s)

Spec == Init /\ [][Next]_vars

SpecHonest == InitHonest /\ [][NextHonest]_vars

\* The event loop runs every task that is ready, a read that gets no data
\* times out, and the cooperative peers do send what they have to send.
FairSpec ==
    /\ InitCooperative
    /\ [][NextCooperative]_vars
    /\ WF_vars(ConnectSeed)
    /\ \A s \in Sessions : WF_vars(SessionStep(s))
    /\ \A s \in Sessions : WF_vars(CooperativePeerStep(s))

(***************************************************************************)
(* connect() 657-689: every session has returned; connect returns the      *)
(* result of one of the sessions that returned a dictionary, or None.      *)
(***************************************************************************)
ConnectReturn ==
    /\ sup = "running"
    /\ \A s \in Sessions : pc[s] = "done"
    /\ sup' = "returned"
    /\ IF \E s \in Sessions : result[s] = "dict"
       THEN returned' \in {s \in Sessions : result[s] = "dict"}
       ELSE returned' = NoSession
    /\ UNCHANGED <<handshake_response, interested, codecVars, total_length, corrupt,
                   batchVars, num_pieces, disk,
                   shared_pieces_completed,
                   shared_pieces_downloading, pc, result, bitfield, unchoked,
                   pieces_received, blocks_requested, pieces_downloading,
                   pieces_completed, scan_idx, scan_ret, cur_piece, peer_has,
                   peer_pending, unrequested, chokes, nreq, added>>

\* piece_manager.verify_and_save_piece on the dictionary pieces_dict of a
\* session: TRUE when the piece file is (now) there and valid
verify_and_save_piece(piece_index, pieces_dict, bad, d) ==
    IF d[piece_index] = "good" THEN TRUE
    ELSE /\ is_piece_complete(pieces_dict, piece_index, piece_length)
         /\ piece_index \notin bad

\* request.py 71-108: the pieces of the returned dictionary are verified and
\* saved; nothing else is done with a piece that fails
VerifyAndSave ==
    /\ sup = "returned"
    /\ sup' = "verified"
    /\ disk' = IF returned = NoSession THEN disk
               ELSE [p \in Pieces |->
                        IF /\ p \in DOMAIN pieces_received[returned]
                           /\ verify_and_save_piece(p, pieces_received[returned],
                                                    corrupt[returned], disk)
                        THEN "good" ELSE disk[p]]
    /\ UNCHANGED <<extVars, num_pieces, shared_pieces_completed,
                   shared_pieces_downloading, pc, result, bitfield, unchoked,
                   pieces_received, blocks_requested, pieces_downloading,
                   pieces_completed, scan_idx, scan_ret, cur_piece, peer_has,
                   peer_pending, unrequested, chokes, nreq, added>>

\* peers of which one sends blocks at offsets of its own choice
NextAnyOffset ==
    \/ NextHonest
    \/ \E s \in Dishonest : \E f \in AnyOffsetFrames : RecvUnrequestedPiece(s, f)

InitAnyOffset == InitWith(AnyPeerPieces) /\ disk = [p \in Pieces |-> "none"]

SpecAnyOffset == InitAnyOffset /\ [][NextAnyOffset]_vars

\* a PIECE frame whose piece_index is no piece of the torrent, its block as
\* long as a piece (268-272 store whatever parse_piece returns)
OutOfRangeFrames == {[p |-> num_pieces, o |-> 0, l |-> piece_length]}

NextAnyIndex ==
    \/ NextHonest
    \/ \E s \in Dishonest : \E f \in OutOfRangeFrames : RecvUnrequestedPiece(s, f)

InitAnyIndex == InitWith(NumPieces) /\ disk = [p \in Pieces |-> "none"]

SpecAnyIndex == InitAnyIndex /\ [][NextAnyIndex]_vars

\* peers that keep to the protocol, one of which serves wrong bytes
NextCorrupt ==
    \/ NextHonest
    \/ \E s \in Dishonest : \E r \in peer_pending[s] : RecvCorruptPiece(s, r)
    \/ ConnectReturn
    \/ VerifyAndSave

SpecCorrupt == InitCorrupt /\ [][NextCorrupt]_vars

(***************************************************************************)
(* connect() 572-692 as the supervisor of batches of tasks.  A task is one *)
(* async_connect_to_peer; it ends with None (no connection, no handshake,  *)
(* an error in the exchange), with the dictionary of the session, or with  *)
(* an exception.                                                           *)
(***************************************************************************)
TaskOutcomes == {"None", "dict", "exception"}

\* task.done()
TaskDone(st) == st # "running"

\* 587: peer_list[peer_index:peer_index + max_peers]
BatchSlice(i, n) == {j \in 0 .. (n - 1) : i <= j /\ j < i + max_peers}

\* the index left where it was
NextPeerIndex_Stuck(i) == i

\* 588
NextPeerIndex(i) == i + max_peers

\* the indices of S in the order of the peer list
RECURSIVE InListOrder(_)
InListOrder(S) ==
    IF S = {} THEN << >>
    ELSE LET m == SetMin(S) IN <<m>> \o InListOrder(S \ {m})

\* 612-627: the tasks of the batch that finished with a result
BatchSucceeded(bp, tk) ==
    LET HasResult(i) == tk[i] = "dict"
    IN  SelectSeq(InListOrder(bp), HasResult)

\* 612-627: the tasks of the batch that are still running
BatchRunning(bp, tk) ==
    LET Running(i) == ~ TaskDone(tk[i])
    IN  SelectSeq(InListOrder(bp), Running)

\* 609-627: batch_success
BatchSuccess(bp, tk) == BatchSucceeded(bp, tk) # << >> \/ BatchRunning(bp, tk) # << >>

\* a wait that is over with the first task that ends
GatherOver_First(rt, tk) == \E k \in 1 .. Len(rt) : TaskDone(tk[rt[k]])

\* 670: asyncio.gather(*tasks_to_wait, return_exceptions=True) is over
GatherOver(rt, tk) == \A k \in 1 .. Len(rt) : TaskDone(tk[rt[k]])

\* 673-689: what connect returns after the gather
GatherResult(sc, rt, tk) ==
    IF \E k \in 1 .. Len(rt) : tk[rt[k]] = "dict" THEN "dict"
    ELSE IF sc # << >> THEN "dict"
    ELSE "None"

\* 657-692 up to the gather: the position and the result of connect
AfterLoop(sc, rt) ==
    IF rt # << >> THEN [cpc |-> "gather", res |-> "pending"]
    ELSE IF sc # << >> THEN [cpc |-> "done", res |-> "dict"]
    ELSE [cpc |-> "done", res |-> "None"]

\* 581-598: the next batch of tasks is created
LaunchBatch ==
    /\ cpc = "loop"
    /\ batch < max_retries
    /\ peer_index < peer_list_len
    /\ \E bp \in {BatchSlice(peer_index, peer_list_len)} :
          /\ batch_peers' = bp
          /\ task' = [i \in DOMAIN task |-> IF i \in bp THEN "running" ELSE task[i]]
          /\ starts' = [i \in DOMAIN starts |-> IF i \in bp THEN starts[i] + 1
                                                ELSE starts[i]]
    /\ peer_index' = NextPeerIndex(peer_index)
    /\ cpc' = "sleep"
    /\ UNCHANGED <<sessionVars, peer_list_len, batch, successful_connections,
                   running_tasks, connect_result, probe_live>>

\* 581-584 and 657-692: the loop is over, by its range or by the break for
\* the exhausted list
LoopEnd ==
    /\ cpc = "loop"
    /\ batch >= max_retries \/ peer_index >= peer_list_len
    /\ cpc' = AfterLoop(successful_connections, running_tasks).cpc
    /\ connect_result' = AfterLoop(successful_connections, running_tasks).res
    /\ UNCHANGED <<sessionVars, peer_list_len, batch, peer_index, task, starts,
                   batch_peers, successful_connections, running_tasks, probe_live>>

\* a running task ends
TaskEnds(i, st) ==
    /\ task[i] = "running"
    /\ task' = [task EXCEPT ![i] = st]
    /\ UNCHANGED <<sessionVars, peer_list_len, batch, peer_index, cpc, starts,
                   batch_peers, successful_connections, running_tasks,
                   connect_result, probe_live>>

\* 605-646: the sleep of the probe window is over
Probe ==
    /\ cpc = "sleep"
    /\ \E sc \in {successful_connections \o BatchSucceeded(batch_peers, task)} :
          /\ successful_connections' = sc
          /\ IF BatchSuccess(batch_peers, task)
             THEN \E rt \in {running_tasks \o BatchRunning(batch_peers, task)} :
                    /\ running_tasks' = rt
                    /\ cpc' = AfterLoop(sc, rt).cpc
                    /\ connect_result' = AfterLoop(sc, rt).res
                    /\ batch' = batch
             ELSE /\ cpc' = "loop"
                  /\ batch' = batch + 1
                  /\ UNCHANGED <<running_tasks, connect_result>>
    /\ probe_live' = (probe_live \/ \E i \in batch_peers : task[i] \in {"running", "dict"})
    /\ UNCHANGED <<sessionVars, peer_list_len, peer_index, task, starts, batch_peers>>

\* 670-689: every task of running_tasks is over, connect returns
GatherReturn ==
    /\ cpc = "gather"
    /\ GatherOver(running_tasks, task)
    /\ cpc' = "done"
    /\ connect_result' = GatherResult(successful_connections, running_tasks, task)
    /\ UNCHANGED <<sessionVars, peer_list_len, batch, peer_index, task, starts,
                   batch_peers, successful_connections, running_tasks, probe_live>>

NextConnect ==
    \/ LaunchBatch
    \/ LoopEnd
    \/ \E i \in DOMAIN task : \E st \in TaskOutcomes : TaskEnds(i, st)
    \/ Probe
    \/ GatherReturn

SpecConnect == InitConnect /\ [][NextConnect]_vars

\* cooperative peers of a torrent with a short last piece: a REQUEST that
\* reaches beyond the end of the piece is answered with the bytes there are,
\* or discarded
LastPiecePeerStep(s) ==
    \/ CooperativePeerStep(s)
    \/ \E r \in peer_pending[s] : PeerRejects(s, r)

NextLastPiece ==
    \/ ConnectSeed
    \/ \E s \in Sessions : SessionStep(s)
    \/ \E s \in Sessions : LastPiecePeerStep(s)

FairLastPiece ==
    /\ InitLastPiece
    /\ [][NextLastPiece]_vars
    /\ WF_vars(ConnectSeed)
    /\ \A s \in Sessions : WF_vars(SessionStep(s))
    /\ \A s \in Sessions : WF_vars(LastPiecePeerStep(s))

(***************************************************************************)
(* The handshake codec on sample identifiers                               *)
(***************************************************************************)
SampleBytes == {0, 1, 255}

\* byte strings of n bytes that differ in the first and in the last byte
Stamped(n) == {<<a>> \o Repeat(0, n - 2) \o <<b>> : a, b \in SampleBytes}

SampleHashes == Stamped(HashLength)

\* strings that are no 20-byte identifiers
WrongLength == {Repeat(0, HashLength - 1), Repeat(0, HashLength + 1)}

InitHandshake ==
    /\ SessionsAtRest(0)
    /\ InitBatches(0)
    /\ FramingAtRest
    /\ StreamAtRest
    /\ AsmAtRest
    /\ info_hash \in SampleHashes \cup {Repeat(0, HashLength - 1)}
    /\ peer_id \in SampleHashes \cup {Repeat(0, HashLength + 1)}
    /\ expected_info_hash \in SampleHashes \cup WrongLength
    /\ handshake_data = << >>
    /\ validated = None
    /\ handshake_pc = "new"

\* construct_handshake(info_hash, peer_id)
ConstructHandshake ==
    /\ handshake_pc = "new"
    /\ IF ConstructRaises(info_hash, peer_id)
       THEN /\ handshake_pc' = "raised"
            /\ UNCHANGED handshake_data
       ELSE /\ handshake_pc' = "constructed"
            /\ handshake_data' = construct_handshake(info_hash, peer_id)
    /\ UNCHANGED <<info_hash, peer_id, expected_info_hash, validated>>
    /\ UNCHANGED <<framingVars, streamVars, asmVars, engineVars>>

\* validate_handshake(handshake_data, expected_info_hash)
ValidateHandshake ==
    /\ handshake_pc = "constructed"
    /\ validated' = validate_handshake(handshake_data, expected_info_hash)
    /\ handshake_pc' = "validated"
    /\ UNCHANGED <<info_hash, peer_id, expected_info_hash, handshake_data>>
    /\ UNCHANGED <<framingVars, streamVars, asmVars, engineVars>>

NextHandshake == ConstructHandshake \/ ValidateHandshake

SpecHandshake == InitHandshake /\ [][NextHandshake]_vars

(***************************************************************************)
(* The message framing on sample messages                                  *)
(***************************************************************************)
LongPayload == 255      \* bytes of the longest sample payload

SamplePayloads ==
    {<< >>, <<0>>, <<255>>, <<1, 2>>, <<0, 0, 0, 1, 0>>, Repeat(7, LongPayload)}

\* nothing, part of a length prefix, a keep-alive, a whole message, a message
\* of which the end is missing
SampleRests ==
    {<< >>, <<0, 0>>, <<0, 0, 0, 0>>, <<0, 0, 0, 1, 1>>, <<0, 0, 0, 5, 4, 0>>}

InitFraming ==
    /\ SessionsAtRest(0)
    /\ InitBatches(0)
    /\ HandshakeAtRest
    /\ StreamAtRest
    /\ AsmAtRest
    /\ message_id \in 0 .. MSG_CANCEL
    /\ payload \in SamplePayloads
    /\ rest \in SampleRests
    /\ data = << >>
    /\ parsed = None
    /\ framing_pc = "new"

\* the buffer holds create_message(message_id, payload) and what follows it
CreateMessage ==
    /\ framing_pc = "new"
    /\ data' = create_message(message_id, payload) \o rest
    /\ framing_pc' = "created"
    /\ UNCHANGED <<message_id, payload, rest, parsed>>
    /\ UNCHANGED <<handshakeVars, streamVars, asmVars, engineVars>>

\* parse_message(data)
ParseMessage ==
    /\ framing_pc = "created"
    /\ parsed' = parse_message(data)
    /\ framing_pc' = "parsed"
    /\ UNCHANGED <<message_id, payload, rest, data>>
    /\ UNCHANGED <<handshakeVars, streamVars, asmVars, engineVars>>

NextFraming == CreateMessage \/ ParseMessage

SpecFraming == InitFraming /\ [][NextFraming]_vars

(***************************************************************************)
(* The read loop on a stream of frames that arrives in chunks              *)
(***************************************************************************)
MaxFrames == 2          \* frames the peer writes

\* a keep-alive, UNCHOKE, HAVE(1), BITFIELD(0xC0)
SampleFrames == {<<NoneId, << >>>>, <<1, << >>>>, <<4, <<0, 0, 0, 1>>>>, <<5, <<192>>>>}

\* the bytes of a frame
Encode(f) == IF f[1] = NoneId THEN KEEP_ALIVE ELSE create_message(f[1], f[2])

RECURSIVE EncodeAll(_)
EncodeAll(fs) == IF fs = << >> THEN << >> ELSE Encode(Head(fs)) \o EncodeAll(Tail(fs))

FrameSeqs == UNION {[1 .. n -> SampleFrames] : n \in 0 .. MaxFrames}

InitStream ==
    /\ SessionsAtRest(0)
    /\ InitBatches(0)
    /\ HandshakeAtRest
    /\ FramingAtRest
    /\ AsmAtRest
    /\ sent \in FrameSeqs
    /\ wire = EncodeAll(sent)
    /\ buffer = << >>
    /\ received = << >>
    /\ stream_pc = "read"

\* 199-204: reader.read(4096) returns some bytes of the stream, at least one
ReadChunk ==
    /\ stream_pc = "read"
    /\ \E k \in 1 .. Len(wire) :
          /\ buffer' = buffer \o SubSeq(wire, 1, k)
          /\ wire' = SubSeq(wire, k + 1, Len(wire))
    /\ stream_pc' = "parse"
    /\ UNCHANGED <<sent, received>>
    /\ UNCHANGED <<handshakeVars, framingVars, asmVars, engineVars>>

\* 200-203: reader.read returns b'' at the end of the stream
ReadEof ==
    /\ stream_pc = "read"
    /\ wire = << >>
    /\ stream_pc' = "closed"
    /\ UNCHANGED <<sent, wire, buffer, received>>
    /\ UNCHANGED <<handshakeVars, framingVars, asmVars, engineVars>>

\* 232-242: one turn of the loop `while True: result = parse_message(buffer)`
ParseNext ==
    /\ stream_pc = "parse"
    /\ \E r \in {parse_message(buffer)} :
          IF r = None
          THEN /\ stream_pc' = "read"
               /\ UNCHANGED <<buffer, received>>
          ELSE /\ buffer' = SubSeq(buffer, r[3] + 1, Len(buffer))
               /\ received' = Append(received, <<r[1], r[2]>>)
               /\ UNCHANGED stream_pc
    /\ UNCHANGED <<sent, wire>>
    /\ UNCHANGED <<handshakeVars, framingVars, asmVars, engineVars>>

NextStream == ReadChunk \/ ReadEof \/ ParseNext

\* the length prefix of a frame longer than any frame of the torrent (a PIECE
\* carrying a whole piece has length piece_length + 9), and the bytes the
\* peer sends after it
MaxTail == 3

OversizeStarts ==
    {pack_I(piece_length + 13 + 1) \o Repeat(7, k) : k \in 0 .. MaxTail}

InitOversize ==
    /\ SessionsAtRest(0)
    /\ InitBatches(0)
    /\ HandshakeAtRest
    /\ FramingAtRest
    /\ AsmAtRest
    /\ sent \in FrameSeqs
    /\ wire \in {EncodeAll(sent) \o o : o \in OversizeStarts}
    /\ buffer = << >>
    /\ received = << >>
    /\ stream_pc = "read"

SpecOversize == InitOversize /\ [][NextStream]_vars

SpecStream == InitStream /\ [][NextStream]_vars

(***************************************************************************)
(* Sessions whose peers answer the handshake with 68 bytes of their choice *)
(***************************************************************************)
\* s with position i (from 0) replaced by b
WithByte(d, i, b) == [d EXCEPT ![i + 1] = b]

\* a good answer, one with extension bits set, and answers with a wrong first
\* byte, a wrong protocol string, a foreign info hash
SampleResponses ==
    {GoodResponse,
     WithByte(GoodResponse, 25, 16),
     WithByte(GoodResponse, 0, 18),
     WithByte(GoodResponse, 19, 76),
     WithByte(GoodResponse, 47, 0)}

InitAnyHandshake ==
    /\ total_length = NumPieces * piece_length
    /\ InitPieces(NumPieces)
    /\ disk = [p \in Pieces |-> "none"]
    /\ handshake_response \in [Sessions -> SampleResponses]
    /\ interested = [s \in Sessions |-> FALSE]

\* 101-107, 530-532: the handshake is not valid, the connection is closed and
\* async_connect_to_peer returns None
HandshakeFails(s) ==
    /\ sup = "running"
    /\ pc[s] = "new"
    /\ ~ HandshakeOk(s)
    /\ pc' = [pc EXCEPT ![s] = "done"]
    /\ result' = [result EXCEPT ![s] = "None"]
    /\ UNCHANGED <<extVars, num_pieces, sup, disk, shared_pieces_completed,
                   shared_pieces_downloading, bitfield, unchoked, pieces_received,
                   blocks_requested, pieces_downloading, pieces_completed, scan_idx,
                   scan_ret, cur_piece, peer_has, peer_pending, unrequested, chokes,
                   nreq, added>>

NextAnyHandshake ==
    \/ NextHonest
    \/ \E s \in Sessions : HandshakeFails(s)

SpecAnyHandshake == InitAnyHandshake /\ [][NextAnyHandshake]_vars

(***************************************************************************)
(* piece_manager.py: assemble_multi_file and assemble_single_file          *)
(***************************************************************************)
MaxFiles == 3           \* files of a multi-file torrent
MaxFileLength == 5      \* bytes of a file
AsmPieces == 3          \* pieces of the single-file torrent

Min(a, b) == IF a < b THEN a ELSE b

RECURSIVE SumSeq(_)
SumSeq(q) == IF q = << >> THEN 0 ELSE Head(q) + SumSeq(Tail(q))

\* the content of a torrent of n bytes: every byte tells its position
Content(n) == [g \in 1 .. n |-> (g - 1) % 256]

NumPiecesOf(n) == (n + piece_length - 1) \div piece_length

\* piece i of that content, as save_piece_to_disk wrote it
PieceData(i, n) == SubSeq(Content(n), i * piece_length + 1, Min((i + 1) * piece_length, n))

\* `if not piece_data`: None and b'' are false
Falsy(d) == d = None \/ d = << >>

\* 166-176: load_piece_from_disk
load_piece_from_disk(i) == IF i \in DOMAIN piece_files THEN piece_files[i] ELSE None

\* a write that takes all the piece has left
WriteSize_WholePiece(rem, available) == available

\* 403: write_size = min(remaining, available_in_piece)
WriteSize(rem, available) == Min(rem, available)

AsmIdle ==
    /\ file_no = 1
    /\ remaining = 0
    /\ current_piece_index = 0
    /\ current_piece_offset = 0
    /\ current_piece_data = None
    /\ asm_piece_index = 0
    /\ bytes_written = 0

CodecIdle ==
    /\ SessionsAtRest(0)
    /\ InitBatches(0)
    /\ HandshakeAtRest
    /\ FramingAtRest
    /\ StreamAtRest

\* a multi-file torrent of which every piece is saved
InitMultiFile ==
    /\ CodecIdle
    /\ AsmIdle
    /\ files \in {q \in UNION {[1 .. n -> 0 .. MaxFileLength] : n \in 1 .. MaxFiles} :
                    SumSeq(q) > 0}
    /\ asm_total_length = 0
    /\ saved_pieces = 0 .. (NumPiecesOf(SumSeq(files)) - 1)
    /\ piece_files = [i \in saved_pieces |-> PieceData(i, SumSeq(files))]
    /\ out_files = << >>
    /\ asm_pc = "open"

\* 376-391, 420-422: the next turn of `for file_info in files`
OpenFile ==
    /\ asm_pc = "open"
    /\ IF file_no > Len(files)
       THEN /\ asm_pc' = "done"
            /\ UNCHANGED <<remaining, out_files>>
       ELSE /\ asm_pc' = "loop"
            /\ remaining' = files[file_no]
            /\ out_files' = Append(out_files, << >>)
    /\ UNCHANGED <<files, asm_total_length, saved_pieces, piece_files, file_no,
                   current_piece_index, current_piece_offset, current_piece_data,
                   asm_piece_index, bytes_written>>
    /\ UNCHANGED <<handshakeVars, framingVars, streamVars, engineVars>>

\* 393-415: one turn of `while remaining > 0`, and the end of the file
WriteTurn ==
    /\ asm_pc = "loop"
    /\ IF remaining <= 0
       THEN /\ file_no' = file_no + 1
            /\ asm_pc' = "open"
            /\ UNCHANGED <<remaining, current_piece_index, current_piece_offset,
                           current_piece_data, out_files>>
       ELSE \E load \in {current_piece_data = None
                            \/ current_piece_offset >= Len(current_piece_data)} :
            \E d \in {IF load THEN load_piece_from_disk(current_piece_index)
                              ELSE current_piece_data} :
            \E o \in {IF load THEN 0 ELSE current_piece_offset} :
            IF load /\ (current_piece_index \notin saved_pieces \/ Falsy(d))
            THEN \* 396-403: break
                 /\ file_no' = file_no + 1
                 /\ asm_pc' = "open"
                 /\ current_piece_data' =
                        IF current_piece_index \in saved_pieces THEN d
                        ELSE current_piece_data
                 /\ current_piece_offset' =
                        IF current_piece_index \in saved_pieces THEN 0
                        ELSE current_piece_offset
                 /\ UNCHANGED <<remaining, current_piece_index, out_files>>
            ELSE \E w \in {WriteSize(remaining, Len(d) - o)} :
                 /\ out_files' = [out_files EXCEPT
                        ![file_no] = @ \o SubSeq(d, o + 1, Min(o + w, Len(d)))]
                 /\ remaining' = remaining - w
                 /\ IF o + w >= Len(d)
                    THEN /\ current_piece_index' = current_piece_index + 1
                         /\ current_piece_data' = None
                         /\ current_piece_offset' = 0
                    ELSE /\ current_piece_data' = d
                         /\ current_piece_offset' = o + w
                         /\ UNCHANGED current_piece_index
                 /\ UNCHANGED <<file_no, asm_pc>>
    /\ UNCHANGED <<files, asm_total_length, saved_pieces, piece_files,
                   asm_piece_index, bytes_written>>
    /\ UNCHANGED <<handshakeVars, framingVars, streamVars, engineVars>>

NextMultiFile == OpenFile \/ WriteTurn

SpecMultiFile == InitMultiFile /\ [][NextMultiFile]_vars

\* a single-file torrent; a piece may be missing from pieces_dir, and the file
\* of a saved piece may be empty or unreadable
InitSingleFile ==
    /\ CodecIdle
    /\ AsmIdle
    /\ files = << >>
    /\ asm_total_length \in ((AsmPieces - 1) * piece_length + 1) .. (AsmPieces * piece_length)
    /\ saved_pieces \in SUBSET (0 .. (AsmPieces - 1))
    /\ \E kind \in [saved_pieces -> {"whole", "empty", "unreadable"}] :
          piece_files = [i \in saved_pieces |->
                            IF kind[i] = "whole" THEN PieceData(i, asm_total_length)
                            ELSE IF kind[i] = "empty" THEN << >> ELSE None]
    /\ out_files = << << >> >>
    /\ asm_pc = "single"

\* 328-344: one turn of `while bytes_written < total_length`
SingleTurn ==
    /\ asm_pc = "single"
    /\ IF bytes_written >= asm_total_length \/ asm_piece_index \notin saved_pieces
       THEN /\ asm_pc' = "done"
            /\ UNCHANGED <<asm_piece_index, bytes_written, out_files>>
       ELSE \E d \in {load_piece_from_disk(asm_piece_index)} :
            \E w \in {IF Falsy(d) THEN 0
                       ELSE Min(Len(d), asm_total_length - bytes_written)} :
            /\ out_files' = IF Falsy(d) THEN out_files
                            ELSE [out_files EXCEPT ![1] = @ \o SubSeq(d, 1, w)]
            /\ bytes_written' = bytes_written + w
            /\ asm_piece_index' = asm_piece_index + 1
            /\ UNCHANGED asm_pc
    /\ UNCHANGED <<files, asm_total_length, saved_pieces, piece_files, file_no, remaining,
                   current_piece_index, current_piece_offset, current_piece_data>>
    /\ UNCHANGED <<handshakeVars, framingVars, streamVars, engineVars>>

SpecSingleFile == InitSingleFile /\ [][SingleTurn]_vars

(***************************************************************************)
(* piece_manager.py: is_piece_complete on dictionaries of blocks           *)
(***************************************************************************)
IpcPieces == 2          \* pieces of the torrent; the last one is IpcPieces - 1
MaxBlockOffset == 4     \* highest offset of a stored block
MaxBlockLength == 3     \* bytes of the longest stored block

\* {offset: length of the block} for any offsets and lengths
BlockDicts ==
    UNION {[offs -> 1 .. MaxBlockLength] : offs \in SUBSET (0 .. MaxBlockOffset)}

\* every variable that is not of the tools at rest
ToolsIdle ==
    /\ SessionsIdle(0)
    /\ InitBatches(0)
    /\ HandshakeAtRest
    /\ FramingAtRest
    /\ StreamAtRest
    /\ AsmAtRest

InitPieceComplete ==
    /\ ToolsIdle
    /\ ConnAtRest
    /\ LockAtRest
    /\ VerifyAtRest
    /\ HistAtRest
    /\ ipc_piece_index \in 0 .. (IpcPieces - 1)
    /\ \E k \in 0 .. (IpcPieces - 1) : \E b \in BlockDicts :
          ipc_pieces_dict = Put(EmptyDict, k, b)
    /\ ipc_result = FALSE
    /\ ipc_pc = "new"

\* is_piece_complete(pieces_dict, piece_index, piece_length), as called at
\* connection.py 279 and request.py 95
CheckComplete ==
    /\ ipc_pc = "new"
    /\ ipc_result' = is_piece_complete(ipc_pieces_dict, ipc_piece_index, piece_length)
    /\ ipc_pc' = "checked"
    /\ UNCHANGED <<ipc_pieces_dict, ipc_piece_index>>
    /\ UNCHANGED <<handshakeVars, framingVars, streamVars, asmVars, coreVars, connVars,
                   lockVars, verifyVars, histVars>>

SpecPieceComplete == InitPieceComplete /\ [][CheckComplete]_vars

(***************************************************************************)
(* connection.py: async_connect_to_peer (513-544) with                     *)
(* async_connect_and_handshake (64-117), one task for each peer of a       *)
(* batch.  A task runs from one await to the next; at an await the         *)
(* awaited call returns or raises, or the task is cancelled by connect()   *)
(* (640, 653), which raises CancelledError at the await.                   *)
(***************************************************************************)
ConnPeers == 1 .. max_peers

InitSockets ==
    /\ ToolsIdle
    /\ IpcAtRest
    /\ LockAtRest
    /\ VerifyAtRest
    /\ HistAtRest
    /\ writer = [i \in ConnPeers |-> "none"]
    /\ conn_pc = [i \in ConnPeers |-> "open_connection"]
    /\ conn_result = [i \in ConnPeers |-> "pending"]

ConnQuiet == UNCHANGED <<handshakeVars, framingVars, streamVars, asmVars, coreVars,
                         ipcVars, lockVars, verifyVars, histVars>>

\* the task ends with res; the writer is left as it is
ConnEnds(i, res) ==
    /\ conn_pc' = [conn_pc EXCEPT ![i] = "done"]
    /\ conn_result' = [conn_result EXCEPT ![i] = res]

\* 98-100, 106-108, 541-543: writer.close(), then await writer.wait_closed()
ConnCloses(i, res) ==
    /\ writer' = [writer EXCEPT ![i] = "closed"]
    /\ conn_pc' = [conn_pc EXCEPT ![i] = "wait_closed"]
    /\ conn_result' = [conn_result EXCEPT ![i] = res]

\* 81-84, 87-89: open_connection returns and the handshake is written, or
\* it times out or raises (112-117, then 530-531)
OpenConnection(i, established) ==
    /\ conn_pc[i] = "open_connection"
    /\ IF established
       THEN /\ writer' = [writer EXCEPT ![i] = "open"]
            /\ conn_pc' = [conn_pc EXCEPT ![i] = "drain"]
            /\ UNCHANGED conn_result
       ELSE ConnEnds(i, "None") /\ UNCHANGED writer
    /\ ConnQuiet

\* 89: writer.drain() returns, or raises and the except clause returns
\* (None, None, None) (115-117, then 530-531)
Drain(i, raises) ==
    /\ conn_pc[i] = "drain"
    /\ IF raises
       THEN ConnEnds(i, "None")
       ELSE conn_pc' = [conn_pc EXCEPT ![i] = "receive"] /\ UNCHANGED conn_result
    /\ UNCHANGED writer
    /\ ConnQuiet

\* 93-109, 530-534: async_receive_exact returns the response or None
\* (36-61 catches what the read raises)
ReceiveHandshake(i, response) ==
    /\ conn_pc[i] = "receive"
    /\ IF response = None
       THEN ConnCloses(i, "None")
       ELSE IF ~ validate_handshake(response, OurInfoHash)[1]
       THEN ConnCloses(i, "None")
       ELSE /\ conn_pc' = [conn_pc EXCEPT ![i] = "exchange"]
            /\ UNCHANGED <<writer, conn_result>>
    /\ ConnQuiet

\* 535-543: async_exchange_messages returns its result or None (it catches
\* what its body raises, 323-327), and the finally clause closes the writer
ExchangeReturns(i, res) ==
    /\ conn_pc[i] = "exchange"
    /\ ConnCloses(i, res)
    /\ ConnQuiet

\* 100, 108, 543: wait_closed returns or raises; the task ends with what it
\* was about to return
WaitClosed(i) ==
    /\ conn_pc[i] = "wait_closed"
    /\ conn_pc' = [conn_pc EXCEPT ![i] = "done"]
    /\ UNCHANGED <<writer, conn_result>>
    /\ ConnQuiet

\* 640, 653: task.cancel() while the task waits.  CancelledError is no
\* Exception: the except clauses of 112-117 and of 323-327 do not catch it,
\* the finally clause of 540-543 runs when the task is inside the try.
Cancel(i) ==
    /\ conn_pc[i] \in {"open_connection", "drain", "receive", "exchange", "wait_closed"}
    /\ IF conn_pc[i] = "exchange"
       THEN ConnCloses(i, "cancelled")
       ELSE ConnEnds(i, "cancelled") /\ UNCHANGED writer
    /\ ConnQuiet

NextSockets ==
    \/ \E i \in ConnPeers : \E established \in BOOLEAN : OpenConnection(i, established)
    \/ \E i \in ConnPeers : \E raises \in BOOLEAN : Drain(i, raises)
    \/ \E i \in ConnPeers : \E response \in SampleResponses \cup {None} :
          ReceiveHandshake(i, response)
    \/ \E i \in ConnPeers : \E res \in {"dict", "None"} : ExchangeReturns(i, res)
    \/ \E i \in ConnPeers : WaitClosed(i)
    \/ \E i \in ConnPeers : Cancel(i)

SpecSockets == InitSockets /\ [][NextSockets]_vars

(***************************************************************************)
(* connection.py: the sessions with shared_state['lock'] made explicit.    *)
(* "async with shared_state['lock']" is an await that waits while another  *)
(* task holds the lock; the body of each of the four blocks (171-173,      *)
(* 286-288, 361-367, 424-430) has no await, so the body and the release    *)
(* are one step.  The code between two blocks is cut at the awaits on the  *)
(* socket (reader.read, writer.drain).  A PIECE frame stands for the frame *)
(* that completes its piece: the frames before it touch neither the lock   *)
(* nor the shared sets.                                                    *)
(***************************************************************************)
\* the positions of a task suspended in a read or a write of its socket
SocketAwaits == {"drain_interested", "read", "drain_request"}

\* the positions at "async with shared_state['lock']"
LockAwaits == {"lock_copy", "lock_claim", "lock_complete"}

lockRest == <<handshake_response, interested, batchVars, total_length, corrupt,
              returned, num_pieces, sup, disk, pieces_received, blocks_requested,
              peer_has, peer_pending, unrequested, chokes, added, handshakeVars,
              framingVars, streamVars, asmVars, ipcVars, connVars, verifyVars,
              histVars>>

InitLock ==
    /\ total_length = NumPieces * piece_length
    /\ SessionsIdle(NumPieces)
    /\ InitBatches(0)
    /\ HandshakeAtRest /\ FramingAtRest /\ StreamAtRest /\ AsmAtRest
    /\ IpcAtRest /\ ConnAtRest /\ VerifyAtRest /\ HistAtRest
    /\ lock = NoSession
    /\ can_download = [s \in Sessions |-> TRUE]

\* the lock is held at the end of the block
Released_Held(s) == s

\* __aexit__ of the lock at the end of a block
Released(s) == NoSession

\* 137-170: the locals are set up; the task is at the lock of 171
Begin(s) ==
    /\ pc[s] = "new"
    /\ pc' = [pc EXCEPT ![s] = "lock_copy"]
    /\ UNCHANGED <<lockRest, lockVars, bitfield, unchoked, shared_pieces_completed,
                   shared_pieces_downloading, pieces_completed, pieces_downloading,
                   scan_idx, scan_ret, cur_piece, nreq, result>>

\* 171, 286, 361, 424: the lock is free and the task takes it
Acquire(s) ==
    /\ pc[s] \in LockAwaits
    /\ lock = NoSession
    /\ lock' = s
    /\ pc' = [pc EXCEPT ![s] = CASE pc[s] = "lock_copy" -> "copy"
                                [] pc[s] = "lock_claim" -> "claim"
                                [] pc[s] = "lock_complete" -> "complete"]
    /\ UNCHANGED <<lockRest, can_download, bitfield, unchoked, shared_pieces_completed,
                   shared_pieces_downloading, pieces_completed, pieces_downloading,
                   scan_idx, scan_ret, cur_piece, nreq, result>>

\* 172-173, then 181-183: INTERESTED is written and the task waits in drain
Copy(s) ==
    /\ pc[s] = "copy"
    /\ lock = s
    /\ pieces_completed' = [pieces_completed EXCEPT ![s] = shared_pieces_completed]
    /\ pieces_downloading' = [pieces_downloading EXCEPT ![s] = shared_pieces_downloading]
    /\ lock' = Released(s)
    /\ pc' = [pc EXCEPT ![s] = "drain_interested"]
    /\ UNCHANGED <<lockRest, can_download, bitfield, unchoked, shared_pieces_completed,
                   shared_pieces_downloading, scan_idx, scan_ret, cur_piece, nreq,
                   result>>

\* 183-200: the drain returns and the task waits in reader.read
Drained(s) ==
    /\ pc[s] = "drain_interested"
    /\ pc' = [pc EXCEPT ![s] = "read"]
    /\ UNCHANGED <<lockRest, lockVars, bitfield, unchoked, shared_pieces_completed,
                   shared_pieces_downloading, pieces_completed, pieces_downloading,
                   scan_idx, scan_ret, cur_piece, nreq, result>>

\* 245-248: BITFIELD
ReadBitfield(s, has) ==
    /\ pc[s] = "read"
    /\ ~ Truthy(bitfield[s])
    /\ bitfield' = [bitfield EXCEPT ![s] = parse_bitfield(has)]
    /\ UNCHANGED <<lockRest, lockVars, pc, unchoked, shared_pieces_completed,
                   shared_pieces_downloading, pieces_completed, pieces_downloading,
                   scan_idx, scan_ret, cur_piece, nreq, result>>

\* the head of the claim loops (358, 421) at piece_index i: the next index
\* is at the lock, the end of the range goes back to the read
LoopHead(s, i) ==
    /\ scan_idx' = [scan_idx EXCEPT ![s] = i]
    /\ IF i < ScanBound(bitfield[s])
       THEN /\ can_download' = [can_download EXCEPT ![s] = TRUE]
            /\ pc' = [pc EXCEPT ![s] = "lock_claim"]
       ELSE /\ pc' = [pc EXCEPT ![s] = "read"]
            /\ UNCHANGED can_download

\* 251-260: UNCHOKE, with async_request_initial_blocks up to its first lock
ReadUnchoke(s) ==
    /\ pc[s] = "read"
    /\ ~ unchoked[s]
    /\ unchoked' = [unchoked EXCEPT ![s] = TRUE]
    /\ IF UnchokeScanGuard(bitfield[s])
       THEN LoopHead(s, 0) /\ scan_ret' = [scan_ret EXCEPT ![s] = "initial"]
       ELSE UNCHANGED <<pc, scan_idx, scan_ret, can_download>>
    /\ UNCHANGED <<lockRest, lock, bitfield, shared_pieces_completed,
                   shared_pieces_downloading, pieces_completed, pieces_downloading,
                   cur_piece, nreq, result>>

\* 362-367 / 425-430
Claim(s) ==
    /\ pc[s] = "claim"
    /\ lock = s
    /\ \E can \in {CanDownload(scan_idx[s], shared_pieces_completed,
                               shared_pieces_downloading)} :
          /\ can_download' = [can_download EXCEPT ![s] = can]
          /\ shared_pieces_downloading' =
                IF can THEN shared_pieces_downloading \cup {scan_idx[s]}
                ELSE shared_pieces_downloading
    /\ lock' = Released(s)
    /\ pc' = [pc EXCEPT ![s] = "claimed"]
    /\ UNCHANGED <<lockRest, bitfield, unchoked, shared_pieces_completed,
                   pieces_completed, pieces_downloading, scan_idx, scan_ret,
                   cur_piece, nreq, result>>

\* 369-385 / 432-447: the REQUEST is written and the task waits in drain, or
\* the loop goes on with the next index
AfterClaim(s) ==
    /\ pc[s] = "claimed"
    /\ \E ok \in {IF scan_ret[s] = "initial"
                  THEN InitialRequestOk(scan_idx[s], can_download[s],
                                        pieces_downloading[s], pieces_completed[s],
                                        bitfield[s])
                  ELSE NextRequestOk(scan_idx[s], can_download[s],
                                     pieces_downloading[s], pieces_completed[s],
                                     bitfield[s])} :
          IF ok
          THEN /\ nreq' = [nreq EXCEPT ![s][<<scan_idx[s], 0>>] = @ + 1]
               /\ pc' = [pc EXCEPT ![s] = "drain_request"]
               /\ UNCHANGED <<scan_idx, can_download>>
          ELSE LoopHead(s, scan_idx[s] + 1) /\ UNCHANGED nreq
    /\ UNCHANGED <<lockRest, lock, bitfield, unchoked, shared_pieces_completed,
                   shared_pieces_downloading, pieces_completed, pieces_downloading,
                   scan_ret, cur_piece, result>>

\* 385-392 / 447-452: after the drain the piece is counted as downloading;
\* the loop breaks (391-392, 452) or goes on
DrainedRequest(s) ==
    /\ pc[s] = "drain_request"
    /\ \E ld2 \in {pieces_downloading[s] \cup {scan_idx[s]}} :
          /\ pieces_downloading' = [pieces_downloading EXCEPT ![s] = ld2]
          /\ IF scan_ret[s] = "next" \/ Cardinality(ld2) >= max_concurrent_pieces
             THEN /\ pc' = [pc EXCEPT ![s] = "read"]
                  /\ UNCHANGED <<scan_idx, can_download>>
             ELSE LoopHead(s, scan_idx[s] + 1)
    /\ UNCHANGED <<lockRest, lock, bitfield, unchoked, shared_pieces_completed,
                   shared_pieces_downloading, pieces_completed, scan_ret, cur_piece,
                   nreq, result>>

\* 268-284: the PIECE frame that completes piece p
ReadPiece(s, p) ==
    /\ pc[s] = "read"
    /\ p \in pieces_downloading[s]
    /\ p \notin pieces_completed[s]
    /\ pieces_completed' = [pieces_completed EXCEPT ![s] = @ \cup {p}]
    /\ pieces_downloading' = [pieces_downloading EXCEPT ![s] = @ \ {p}]
    /\ cur_piece' = [cur_piece EXCEPT ![s] = p]
    /\ pc' = [pc EXCEPT ![s] = "lock_complete"]
    /\ UNCHANGED <<lockRest, lockVars, bitfield, unchoked, shared_pieces_completed,
                   shared_pieces_downloading, scan_idx, scan_ret, nreq, result>>

\* 287-288
Complete(s) ==
    /\ pc[s] = "complete"
    /\ lock = s
    /\ shared_pieces_completed' = shared_pieces_completed \cup {cur_piece[s]}
    /\ shared_pieces_downloading' = shared_pieces_downloading \ {cur_piece[s]}
    /\ lock' = Released(s)
    /\ pc' = [pc EXCEPT ![s] = "completed"]
    /\ UNCHANGED <<lockRest, can_download, bitfield, unchoked, pieces_completed,
                   pieces_downloading, scan_idx, scan_ret, cur_piece, nreq, result>>

\* 290-297: async_request_next_available_piece up to its first lock, or
\* back to the read
AfterComplete(s) ==
    /\ pc[s] = "completed"
    /\ IF NextPieceGuard(unchoked[s], bitfield[s], pieces_downloading[s])
       THEN LoopHead(s, 0) /\ scan_ret' = [scan_ret EXCEPT ![s] = "next"]
       ELSE /\ pc' = [pc EXCEPT ![s] = "read"]
            /\ UNCHANGED <<scan_idx, scan_ret, can_download>>
    /\ UNCHANGED <<lockRest, lock, bitfield, unchoked, shared_pieces_completed,
                   shared_pieces_downloading, pieces_completed, pieces_downloading,
                   cur_piece, nreq, result>>

\* 187, 199-202, 314-321: the loop condition fails or the peer closes
Leave(s) ==
    /\ pc[s] = "read"
    /\ pc' = [pc EXCEPT ![s] = "done"]
    /\ result' = [result EXCEPT ![s] = "dict"]
    /\ UNCHANGED <<lockRest, lockVars, bitfield, unchoked, shared_pieces_completed,
                   shared_pieces_downloading, pieces_completed, pieces_downloading,
                   scan_idx, scan_ret, cur_piece, nreq>>

NextLock ==
    \/ \E s \in Sessions : Begin(s)
    \/ \E s \in Sessions : Acquire(s)
    \/ \E s \in Sessions : Copy(s)
    \/ \E s \in Sessions : Drained(s)
    \/ \E s \in Sessions : \E has \in BitfieldChoices[s] : ReadBitfield(s, has)
    \/ \E s \in Sessions : ReadUnchoke(s)
    \/ \E s \in Sessions : Claim(s)
    \/ \E s \in Sessions : AfterClaim(s)
    \/ \E s \in Sessions : DrainedRequest(s)
    \/ \E s \in Sessions : \E p \in Pieces : ReadPiece(s, p)
    \/ \E s \in Sessions : Complete(s)
    \/ \E s \in Sessions : AfterComplete(s)
    \/ \E s \in Sessions : Leave(s)

SpecLock == InitLock /\ [][NextLock]_vars

(***************************************************************************)
(* piece_manager.py: verify_and_save_piece (208-265) with verify_piece     *)
(* (26-47), assemble_piece (88-122), save_piece_to_disk (125-154) and      *)
(* load_piece_from_disk (157-178), on one piece file.                      *)
(***************************************************************************)
\* hashlib.sha1(d).digest(): different bytes give different digests
sha1(d) == <<Len(d)>> \o d

\* 26-47
verify_piece(piece_data, expected_hash) == sha1(piece_data) = expected_hash

\* the lengths of the blocks, what is_piece_complete looks at
BlockLengths(pd) ==
    [i \in DOMAIN pd |-> [o \in DOMAIN pd[i] |-> Len(pd[i][o])]]

RECURSIVE Concat(_, _)
Concat(blocks, offs) ==
    IF offs = {} THEN << >>
    ELSE LET o == SetMin(offs) IN blocks[o] \o Concat(blocks, offs \ {o})

\* 88-122: the blocks in the order of their offsets, None when a block is
\* missing
assemble_piece(pd, i) ==
    IF i \notin DOMAIN pd THEN None
    ELSE IF DOMAIN pd[i] = {} THEN None
    ELSE IF ~ Sequential(BlockLengths(pd)[i], DOMAIN pd[i], 0) THEN None
    ELSE Concat(pd[i], DOMAIN pd[i])

\* the bytes of the pieces of the torrent
TorrentPieces == <<PieceData(0, 2 * piece_length), PieceData(1, 2 * piece_length)>>

\* what a peer may have sent for a piece: all of it, all of it with a wrong
\* byte, its first block, all but its last byte, nothing
BlockChoices(d) ==
    {[o \in {0, block_size} |-> SubSeq(d, o + 1, o + block_size)],
     [o \in {0, block_size} |-> IF o = 0 THEN SubSeq(d, 1, block_size)
                                ELSE <<255>> \o SubSeq(d, block_size + 2, Len(d))],
     [o \in {0} |-> SubSeq(d, 1, block_size)],
     [o \in {0} |-> SubSeq(d, 1, Len(d) - 1)],
     EmptyDict}

\* what the piece file may hold before the call: no file, the piece, the
\* piece with a wrong byte, its first bytes, nothing
FileChoices(d) ==
    {None, d, <<255>> \o SubSeq(d, 2, Len(d)), SubSeq(d, 1, block_size), << >>}

InitVerifySave ==
    /\ ToolsIdle
    /\ IpcAtRest /\ ConnAtRest /\ LockAtRest /\ HistAtRest
    /\ piece_hashes \in {<<sha1(TorrentPieces[1])>>,
                         <<sha1(TorrentPieces[1]), sha1(TorrentPieces[2])>>}
    /\ vs_piece_index \in {0, 1}
    /\ \E b \in BlockChoices(TorrentPieces[vs_piece_index + 1]) :
          vs_pieces_dict \in {EmptyDict, Put(EmptyDict, vs_piece_index, b)}
    /\ vs_file \in FileChoices(TorrentPieces[vs_piece_index + 1])
    /\ vs_piece_data = None
    /\ vs_result = FALSE
    /\ vs_pc = "start"

VerifyQuiet == UNCHANGED <<handshakeVars, framingVars, streamVars, asmVars, coreVars,
                           ipcVars, connVars, lockVars, histVars>>

VerifyReturns(res) ==
    /\ vs_result' = res
    /\ vs_pc' = "returned"

\* 222-224
CheckIndex ==
    /\ vs_pc = "start"
    /\ IF vs_piece_index >= Len(piece_hashes)
       THEN VerifyReturns(FALSE)
       ELSE vs_pc' = "existing" /\ UNCHANGED vs_result
    /\ UNCHANGED <<vs_piece_index, vs_pieces_dict, piece_hashes, vs_file, vs_piece_data>>
    /\ VerifyQuiet

\* 227-243 with load_piece_from_disk (157-178): the read of the file may
\* fail (175-177), and so may os.remove (240-243)
CheckExisting(read_fails, remove_fails) ==
    /\ vs_pc = "existing"
    /\ \E existing_piece \in {IF read_fails THEN None ELSE vs_file} :
          IF Falsy(existing_piece)
          THEN vs_pc' = "assemble" /\ UNCHANGED <<vs_result, vs_file>>
          ELSE IF verify_piece(existing_piece, piece_hashes[vs_piece_index + 1])
          THEN VerifyReturns(TRUE) /\ UNCHANGED vs_file
          ELSE /\ vs_file' = IF remove_fails THEN vs_file ELSE None
               /\ vs_pc' = "assemble"
               /\ UNCHANGED vs_result
    /\ UNCHANGED <<vs_piece_index, vs_pieces_dict, piece_hashes, vs_piece_data>>
    /\ VerifyQuiet

\* 246-260
AssembleVerify ==
    /\ vs_pc = "assemble"
    /\ IF ~ is_piece_complete(BlockLengths(vs_pieces_dict), vs_piece_index, piece_length)
       THEN VerifyReturns(FALSE) /\ UNCHANGED vs_piece_data
       ELSE \E d \in {assemble_piece(vs_pieces_dict, vs_piece_index)} :
               /\ vs_piece_data' = d
               /\ IF Falsy(d) THEN VerifyReturns(FALSE)
                  ELSE IF ~ verify_piece(d, piece_hashes[vs_piece_index + 1])
                  THEN VerifyReturns(FALSE)
                  ELSE vs_pc' = "save" /\ UNCHANGED vs_result
    /\ UNCHANGED <<vs_piece_index, vs_pieces_dict, piece_hashes, vs_file>>
    /\ VerifyQuiet

\* 262-266 with save_piece_to_disk (125-154): the file is written; open may
\* fail before it truncates the file, write may fail after a part of the bytes
save_piece_to_disk(outcome) ==
    /\ vs_pc = "save"
    /\ vs_file' = CASE outcome = "written" -> vs_piece_data
                    [] outcome = "open_fails" -> vs_file
                    [] outcome = "write_fails" -> SubSeq(vs_piece_data, 1, block_size)
    /\ VerifyReturns(outcome = "written")
    /\ UNCHANGED <<vs_piece_index, vs_pieces_dict, piece_hashes, vs_piece_data>>
    /\ VerifyQuiet

NextVerifySave ==
    \/ CheckIndex
    \/ \E read_fails, remove_fails \in BOOLEAN : CheckExisting(read_fails, remove_fails)
    \/ AssembleVerify
    \/ \E outcome \in {"written", "open_fails", "write_fails"} : save_piece_to_disk(outcome)

SpecVerifySave == InitVerifySave /\ [][NextVerifySave]_vars

(***************************************************************************)
(* Vocabulary of the properties                                            *)
(***************************************************************************)
Live(s) == pc[s] \notin {"new", "done"}

\* the pieces the session has sent a REQUEST for
Requested(s) == {p \in Pieces : \E o \in Offsets : nreq[s][<<p, o>>] > 0}

\* ... and has not completed
Claimed(s) == Requested(s) \ pieces_completed[s]

\* the pieces of which the session holds some blocks, not all
PartlyReceived(s) ==
    {p \in DOMAIN pieces_received[s] :
        /\ DOMAIN pieces_received[s][p] # {}
        /\ ~ is_piece_complete(pieces_received[s], p, piece_length)}

LowestMissing(s, p) == SetMin(Offsets \ DOMAIN pieces_received[s][p])

(***************************************************************************)
(* C1: with peers that answer only the blocks requested, no piece is       *)
(* claimed by two sessions: for each piece index at most one session has   *)
(* sent a REQUEST for it and not yet completed it.                         *)
(***************************************************************************)
C1_NoPieceClaimedTwice ==
    \A p \in Pieces : Cardinality({s \in Sessions : p \in Claimed(s)}) <= 1

\* both sessions hold claims while their peers advertise common pieces
C1_Witness ==
    /\ peer_has["A"] \cap peer_has["B"] # {}
    /\ \A s \in Sessions : Live(s) /\ Claimed(s) # {}

(***************************************************************************)
(* C2: peer A advertises exactly {0,2}, peer B exactly {1,3}, N = 4, both  *)
(* unchoke and serve every block: eventually A has completed 0 and 2, B    *)
(* has completed 1 and 3 and all four pieces are in the shared completed   *)
(* set.                                                                    *)
(***************************************************************************)
DisjointBitfields == peer_has = [A |-> {0, 2}, B |-> {1, 3}]

C2_DisjointPeersComplete ==
    DisjointBitfields =>
        <>(/\ shared_pieces_completed = Pieces
           /\ {0, 2} \subseteq pieces_completed["A"]
           /\ {1, 3} \subseteq pieces_completed["B"])

(***************************************************************************)
(* C3: when a session has returned, every piece it claimed (sent a REQUEST  *)
(* for) and did not complete is no longer in the shared pieces_downloading.*)
(***************************************************************************)
C3_ClaimsReleasedOnReturn ==
    \A s \in Sessions :
        pc[s] = "done" => Claimed(s) \cap shared_pieces_downloading = {}

(***************************************************************************)
(* C4: every index in the shared pieces_completed has a piece file on disk *)
(* whose bytes hash to the expected digest.                                *)
(***************************************************************************)
C4_CompletedIsVerifiedOnDisk ==
    sup = "running" => \A p \in shared_pieces_completed : disk[p] = "good"

(***************************************************************************)
(* C5: once the shared pieces_completed holds the target number of pieces, *)
(* every session eventually returns, also when its peer keeps the          *)
(* connection open.                                                        *)
(***************************************************************************)
C5_AllSessionsReturn ==
    (Cardinality(shared_pieces_completed) >= pieces_to_download)
        ~> (\A s \in Sessions : pc[s] = "done")

(***************************************************************************)
(* C6: the shared pieces_completed and pieces_downloading are disjoint in  *)
(* every state, and no step adds a completed index to pieces_downloading.  *)
(***************************************************************************)
C6_CompletedDownloadingDisjoint ==
    /\ [](shared_pieces_completed \cap shared_pieces_downloading = {})
    /\ [][\A p \in shared_pieces_completed : p \notin shared_pieces_downloading']_vars

\* a session has moved a piece from downloading to completed while another
\* piece is in flight
C6_Witness ==
    /\ sup = "running"
    /\ shared_pieces_completed \ get_saved_pieces(disk) # {}
    /\ shared_pieces_downloading # {}

(***************************************************************************)
(* C7: an index is in the shared pieces_downloading if and only if some    *)
(* live session holds an assembly for it, that is has sent a REQUEST for   *)
(* it, has an entry for it in pieces_received and has not completed it.    *)
(***************************************************************************)
HoldsAssembly(s, p) ==
    /\ Live(s)
    /\ p \in DOMAIN pieces_received[s]
    /\ p \in Claimed(s)

C7_DownloadingIffAssembly ==
    \A p \in Pieces :
        p \in shared_pieces_downloading <=> \E s \in Sessions : HoldsAssembly(s, p)

(***************************************************************************)
(* C8: a session sends no REQUEST while its peer is choking it.            *)
(***************************************************************************)
C8_NoRequestWhileChoked ==
    [][\A s \in Sessions : nreq'[s] # nreq[s] => unchoked'[s]]_vars

\* a choked session with a partly received piece whose next block the peer
\* still has to send: a PIECE frame is about to arrive while choked
C8_Witness ==
    \E s \in Sessions :
        /\ pc[s] = "read"
        /\ ~ unchoked[s]
        /\ chokes > 0
        /\ \E p \in PartlyReceived(s) : \E r \in peer_pending[s] : r.p = p

(***************************************************************************)
(* C9: after CHOKE with a piece partly downloaded and a later UNCHOKE, the *)
(* session has a REQUEST for the lowest not yet received offset of that    *)
(* piece out at the peer, so that the piece can complete.                  *)
(***************************************************************************)
C9_ResumesAfterUnchoke ==
    \A s \in Sessions :
        (pc[s] = "read" /\ unchoked[s]) =>
            \A p \in PartlyReceived(s) :
                Request(p, LowestMissing(s, p)) \in peer_pending[s]

(***************************************************************************)
(* C10: connect seeds the shared completed set from the piece files before *)
(* any session starts, and no session ever sends a REQUEST for a piece     *)
(* that was on disk when connect started.                                  *)
(***************************************************************************)
C10_SeededNeverRequested ==
    /\ (\E s \in Sessions : pc[s] # "new") =>
            (sup = "running" /\ get_saved_pieces(disk) \subseteq shared_pieces_completed)
    /\ \A s \in Sessions : Requested(s) \cap get_saved_pieces(disk) = {}

(***************************************************************************)
(* C11: when total_length is not a multiple of piece_length, every REQUEST *)
(* lies inside the length of its piece, a piece is completed with exactly  *)
(* its expected number of bytes, and eventually all N pieces are complete. *)
(***************************************************************************)
RequestsInsidePiece ==
    \A s \in Sessions : \A p \in Pieces : \A o \in Offsets :
        nreq[s][<<p, o>>] > 0 => o + request_length(o) <= ExpectedLength(p)

CompletedExactly ==
    \A s \in Sessions : \A p \in pieces_completed[s] \cap DOMAIN pieces_received[s] :
        SumLens(pieces_received[s][p], DOMAIN pieces_received[s][p]) = ExpectedLength(p)

C11_LastPieceCompletes ==
    /\ [](RequestsInsidePiece /\ CompletedExactly)
    /\ <>(shared_pieces_completed = Pieces)

(***************************************************************************)
(* C12: a piece whose assembled bytes failed the SHA-1 check has been      *)
(* released: it is in neither the completed nor the in-flight set, and     *)
(* there is no file for it unless the file is valid.                       *)
(***************************************************************************)
FailedCheck ==
    IF sup # "verified" \/ returned = NoSession THEN {}
    ELSE {p \in DOMAIN pieces_received[returned] :
            /\ is_piece_complete(pieces_received[returned], p, piece_length)
            /\ p \in corrupt[returned]}

C12_FailedPieceReleased ==
    \A p \in FailedCheck :
        p \notin shared_pieces_completed \cup shared_pieces_downloading

(***************************************************************************)
(* C13: in every assembly of pieces_received no stored block reaches       *)
(* beyond the expected length of the piece (such a PIECE is rejected), no  *)
(* two stored blocks overlap, and the stored lengths sum to at most the    *)
(* expected length.                                                        *)
(***************************************************************************)
AssemblyWellFormed(blocks, expected) ==
    /\ \A o \in DOMAIN blocks : o + blocks[o] <= expected
    /\ \A o1, o2 \in DOMAIN blocks : o1 < o2 => o1 + blocks[o1] <= o2
    /\ SumLens(blocks, DOMAIN blocks) <= expected

C13_AssembliesWellFormed ==
    \A s \in Sessions : \A p \in DOMAIN pieces_received[s] :
        AssemblyWellFormed(pieces_received[s][p], ExpectedLength(p))

(***************************************************************************)
(* C14: once a probe has found a task of its batch still running or        *)
(* finished with a result, connect creates no further task, and it has not *)
(* returned while a task it found running is still running.                *)
(***************************************************************************)
C14_LiveBatchIsAwaited ==
    /\ [](probe_live /\ cpc = "done" => \A i \in DOMAIN task : task[i] # "running")
    /\ [][probe_live => starts' = starts]_vars

\* connect returned after waiting for running tasks, with peers left untried
C14_Witness ==
    /\ cpc = "done"
    /\ probe_live
    /\ Len(running_tasks) > 1
    /\ peer_index < peer_list_len

(***************************************************************************)
(* C15: no peer-list entry gets two tasks, a batch is at most max_peers    *)
(* consecutive entries, and when every task had failed at the end of its   *)
(* probe window connect returns None after trying the first                *)
(* min(len(peer_list), max_retries * max_peers) entries, in at most        *)
(* max_retries batches.                                                    *)
(***************************************************************************)
Tried == {i \in DOMAIN starts : starts[i] > 0}

C15_AllBatchesFail ==
    /\ \A i \in DOMAIN starts : starts[i] <= 1
    /\ Cardinality(batch_peers) <= max_peers
    /\ \A i, j \in batch_peers : \A k \in i .. j : k \in batch_peers
    /\ batch <= max_retries
    /\ Cardinality(Tried) <= max_retries * max_peers
    /\ (cpc = "done" /\ ~ probe_live) =>
          /\ connect_result = "None"
          /\ Tried = {i \in DOMAIN starts : i < max_retries * max_peers}

\* three batches of failures with a peer list longer than nine entries
C15_Witness ==
    /\ cpc = "done"
    /\ ~ probe_live
    /\ batch = max_retries
    /\ peer_list_len > max_retries * max_peers

OneBlockInFlight ==
    \A s \in Sessions : \A p \in DOMAIN blocks_requested[s] :
        Cardinality(blocks_requested[s][p]) <= 1

RequestsInOrder ==
    \A s \in Sessions : \A p \in Pieces : \A o \in Offsets :
        nreq'[s][<<p, o>>] > nreq[s][<<p, o>>] =>
            \A lower \in Offsets :
                lower < o => (/\ p \in DOMAIN pieces_received'[s]
                              /\ lower \in DOMAIN pieces_received'[s][p])

C17_OneBlockPerPiece == []OneBlockInFlight /\ [][RequestsInOrder]_vars

(***************************************************************************)
(* C18: a session starts pieces in strictly ascending index order.  Each   *)
(* first-block REQUEST it sends is for the lowest index that the peer's    *)
(* bitfield has and that is neither completed nor in flight in the shared  *)
(* state, and for an index above every piece it has started before.        *)
(***************************************************************************)
Startable(s) ==
    {p \in bitfield[s].bits \cap Pieces :
        /\ p \notin shared_pieces_completed'
        /\ p \notin shared_pieces_downloading}

Started(s) == {p \in Pieces : nreq[s][<<p, 0>>] > 0}

\* a piece that the same step completes counts as completed when the next
\* piece is chosen
StartsLowestStartable ==
    \A s \in Sessions : \A p \in Pieces :
        nreq'[s][<<p, 0>>] > nreq[s][<<p, 0>>] =>
            /\ p \in Startable(s)
            /\ \A q \in Startable(s) : p <= q

StartsAscending ==
    \A s \in Sessions : \A p \in Pieces :
        nreq'[s][<<p, 0>>] > nreq[s][<<p, 0>>] =>
            \A q \in Started(s) : q < p

C18_AscendingStarts == [][StartsLowestStartable /\ StartsAscending]_vars

(***************************************************************************)
(* C19: for 20-byte info_hash and peer_id, construct_handshake raises      *)
(* nothing and returns 68 bytes; validate_handshake of these bytes returns *)
(* (True, peer_id) when the expected info hash is info_hash and            *)
(* (False, None) for any other expected info hash.                         *)
(***************************************************************************)
C19_HandshakeRoundTrip ==
    Len(info_hash) = HashLength /\ Len(peer_id) = HashLength =>
        /\ handshake_pc # "raised"
        /\ handshake_pc \in {"constructed", "validated"} =>
               Len(handshake_data) = HandshakeLength
        /\ handshake_pc = "validated" =>
               validated = IF expected_info_hash = info_hash
                           THEN <<TRUE, peer_id>> ELSE <<FALSE, None>>

C19_Witness ==
    /\ handshake_pc = "validated"
    /\ expected_info_hash = info_hash
    /\ peer_id # info_hash
    /\ validated = <<TRUE, peer_id>>

(***************************************************************************)
(* C20: for a message id in 0 .. 8, any payload and any bytes after the    *)
(* message, parse_message of create_message(m, P) followed by these bytes  *)
(* returns (m, P, 5 + len(P)), and the first 5 + len(P) bytes of the       *)
(* buffer are create_message(m, P).                                        *)
(***************************************************************************)
C20_FramingRoundTrip ==
    framing_pc = "parsed" =>
        /\ parsed = <<message_id, payload, 5 + Len(payload)>>
        /\ Slice(data, 0, 5 + Len(payload)) = create_message(message_id, payload)

C20_Witness ==
    /\ framing_pc = "parsed"
    /\ Len(payload) > 0
    /\ Len(rest) > 0
    /\ parsed = <<message_id, payload, 5 + Len(payload)>>

(***************************************************************************)
(* C21: parse_message returns None exactly when the buffer holds fewer     *)
(* than 4 bytes or fewer than 4 + length bytes; otherwise bytes_consumed   *)
(* is 4 + length and at most len(data), and a length of 0 gives a          *)
(* keep-alive that consumes 4 bytes.  The frames the read loop takes out   *)
(* of the buffer are the frames the peer wrote, in the order written.      *)
(***************************************************************************)
Incomplete(d) == Len(d) < 4 \/ Len(d) < 4 + unpack_I(Slice(d, 0, 4))

ParseContract(d) ==
    /\ (parse_message(d) = None) <=> Incomplete(d)
    /\ ~ Incomplete(d) =>
          /\ parse_message(d)[3] = 4 + unpack_I(Slice(d, 0, 4))
          /\ parse_message(d)[3] <= Len(d)
          /\ unpack_I(Slice(d, 0, 4)) = 0 => parse_message(d) = <<NoneId, << >>, 4>>

IsPrefix(a, b) == Len(a) <= Len(b) /\ a = SubSeq(b, 1, Len(a))

C21_ParseInOrder ==
    /\ ParseContract(buffer)
    /\ IsPrefix(received, sent)
    /\ stream_pc = "closed" => received = sent /\ buffer = << >>

C21_Witness ==
    /\ stream_pc = "closed"
    /\ Len(received) = MaxFrames
    /\ received[1] # received[2]
    /\ \E i \in 1 .. MaxFrames : received[i][1] = NoneId

(***************************************************************************)
(* C22: when the 68 bytes received have a first byte other than 19, a      *)
(* protocol string other than PROTOCOL or an info hash other than ours,    *)
(* validate_handshake returns (False, None); the session sends neither     *)
(* INTERESTED nor a REQUEST, returns None, and its steps leave the shared  *)
(* sets as they are.                                                       *)
(***************************************************************************)
BadResponse(d) ==
    \/ d[1] # 19
    \/ SubSeq(d, 2, 20) # PROTOCOL
    \/ SubSeq(d, 29, 48) # OurInfoHash

Refused(s) ==
    /\ validate_handshake(handshake_response[s], OurInfoHash) = <<FALSE, None>>
    /\ ~ interested[s]
    /\ \A k \in DOMAIN nreq[s] : nreq[s][k] = 0
    /\ pc[s] \in {"new", "done"}
    /\ pc[s] = "done" => result[s] = "None"

C22_BadHandshakeRefused ==
    /\ [](\A s \in Sessions : BadResponse(handshake_response[s]) => Refused(s))
    /\ [][\A s \in Sessions :
            BadResponse(handshake_response[s]) /\ pc'[s] # pc[s] =>
                UNCHANGED <<shared_pieces_completed, shared_pieces_downloading>>]_vars

C22_Witness ==
    \E s, o \in Sessions :
        /\ BadResponse(handshake_response[s])
        /\ pc[s] = "done"
        /\ result[s] = "None"
        /\ interested[o]
        /\ shared_pieces_downloading # {}

(***************************************************************************)
(* C23: a frame whose declared length exceeds piece_length + 13 makes the  *)
(* session fail; the session is never back at reader.read with the start   *)
(* of such a frame at the front of its buffer, waiting for the rest.       *)
(***************************************************************************)
OversizeAtFront ==
    /\ Len(buffer) >= 4
    /\ unpack_I(Slice(buffer, 0, 4)) > piece_length + 13

C23_OversizeFrameFails == ~ (OversizeAtFront /\ stream_pc = "read")

(***************************************************************************)
(* C24: a BITFIELD with a flag set at an index >= N, or of a length that   *)
(* does not fit N, is never stored: the bitfield a session holds has       *)
(* ceil(N / 8) bytes and flags only for pieces, and only such a bitfield   *)
(* is behind a REQUEST.                                                    *)
(***************************************************************************)
FitsTorrent(bf) ==
    /\ bf.len = BitsPerByte * ((num_pieces + BitsPerByte - 1) \div BitsPerByte)
    /\ bf.bits \subseteq Pieces

C24_MalformedBitfieldRefused ==
    \A s \in Sessions : Truthy(bitfield[s]) => FitsTorrent(bitfield[s])

(***************************************************************************)
(* C25: a piece whose file on disk does not hold the piece's bytes is not  *)
(* seeded into the completed set: it is in a completed set only once a     *)
(* session has received all its blocks.                                    *)
(***************************************************************************)
ReceivedWhole(p) ==
    \E s \in Sessions :
        /\ p \in DOMAIN pieces_received[s]
        /\ is_piece_complete(pieces_received[s], p, piece_length)

C25_PartialFileNotSeeded ==
    \A p \in Pieces :
        disk[p] = "partial" /\ ~ ReceivedWhole(p) =>
            /\ p \notin shared_pieces_completed
            /\ \A s \in Sessions : p \notin pieces_completed[s]

(***************************************************************************)
(* C26: with every piece saved, assemble_multi_file writes every listed    *)
(* file with its declared length, and file k holds the bytes of the        *)
(* content from the offset that is the sum of the lengths of the files     *)
(* before it.                                                              *)
(***************************************************************************)
FileStart(k) == SumSeq(SubSeq(files, 1, k - 1))

C26_MultiFileAssembly ==
    asm_pc = "done" /\ files # << >> =>
        /\ Len(out_files) = Len(files)
        /\ \A k \in 1 .. Len(files) :
              /\ Len(out_files[k]) = files[k]
              /\ out_files[k] = SubSeq(Content(SumSeq(files)), FileStart(k) + 1,
                                       FileStart(k) + files[k])

\* a file boundary inside a piece, and a file of length 0 between two others
C26_Witness ==
    /\ asm_pc = "done"
    /\ Len(files) = MaxFiles
    /\ files[1] % piece_length # 0
    /\ files[2] = 0
    /\ files[3] > piece_length
    /\ Len(out_files) = MaxFiles
    /\ Len(out_files[3]) = files[3]

(***************************************************************************)
(* C27: when a piece is missing, or its file is empty or unreadable, the   *)
(* bytes assemble_single_file has written are a prefix of the content: no  *)
(* bytes of a later piece follow the gap.                                  *)
(***************************************************************************)
C27_SingleFilePrefix ==
    asm_pc \in {"single", "done"} =>
        IsPrefix(out_files[1], Content(asm_total_length))

(***************************************************************************)
(* C28: every REQUEST a session sends is for a piece index below N whose   *)
(* flag is set in the stored bitfield and that is in no completed set when *)
(* the REQUEST is sent, whatever frames the peer has sent before.          *)
(***************************************************************************)
RequestAllowed(s, p) ==
    /\ p < num_pieces
    /\ p \in bitfield[s].bits
    /\ p \notin shared_pieces_completed'
    /\ p \notin pieces_completed'[s]

C28_RequestsOnlyWanted ==
    [][\A s \in Sessions : \A p \in Pieces : \A o \in Offsets :
            nreq'[s][<<p, o>>] > nreq[s][<<p, o>>] => RequestAllowed(s, p)]_vars

(***************************************************************************)
(* C29: a session never sends two REQUEST messages for the same            *)
(* (piece_index, offset).                                                  *)
(***************************************************************************)
C29_NoDuplicateRequest ==
    \A s \in Sessions : \A k \in DOMAIN nreq[s] : nreq[s][k] <= 1

(***************************************************************************)
(* C30: for each piece index the step that adds it to the completed set    *)
(* runs at most once in a run, across all sessions: when a session         *)
(* completes a piece, no session has completed that piece before (the      *)
(* shared completed set does not hold it, unless the piece was seeded from *)
(* disk).                                                                  *)
(***************************************************************************)
Completes(s, p) ==
    /\ pc[s] # "new"
    /\ p \notin pieces_completed[s]
    /\ p \in pieces_completed'[s]

C30_CompletionOnce ==
    [][\A s \in Sessions : \A p \in Pieces :
            Completes(s, p) =>
                p \notin shared_pieces_completed \/ p \in get_saved_pieces(disk)]_vars

(***************************************************************************)
(* C31: for a piece other than the last, is_piece_complete returns True    *)
(* exactly when the stored blocks, in the order of their offsets, cover    *)
(* the bytes from 0 without a gap and hold at least piece_length bytes.    *)
(***************************************************************************)
\* every block starts where the blocks before it end
Contiguous(blocks) ==
    \A o \in DOMAIN blocks :
        o = SumLens(blocks, {x \in DOMAIN blocks : x < o})

CoversPiece(d, p) ==
    /\ p \in DOMAIN d
    /\ DOMAIN d[p] # {}
    /\ Contiguous(d[p])
    /\ SumLens(d[p], DOMAIN d[p]) >= piece_length

C31_CompleteIffCovered ==
    ipc_pc = "checked" /\ ipc_piece_index # IpcPieces - 1 =>
        (ipc_result <=> CoversPiece(ipc_pieces_dict, ipc_piece_index))

(***************************************************************************)
(* C32: a session that is sent a PIECE frame of fewer than 8 payload bytes *)
(* has ended with the result None, stores no block from that frame and     *)
(* sends no REQUEST from then on.                                          *)
(***************************************************************************)
C32_ShortPieceFails ==
    /\ [](\A s \in short_piece : pc[s] = "done" /\ result[s] = "None")
    /\ [][\A s \in Sessions : s \in short_piece' =>
              /\ pieces_received'[s] = pieces_received[s]
              /\ nreq'[s] = nreq[s]]_vars

\* the frame reached a session that had stored a block and sent REQUESTs
C32_Witness ==
    \E s \in short_piece :
        /\ pieces_received[s] # EmptyDict
        /\ \E k \in DOMAIN nreq[s] : nreq[s][k] > 0

(***************************************************************************)
(* C33: when every peer sends UNCHOKE before its BITFIELD, so that the     *)
(* first typed message of every session is not BITFIELD, no session ever   *)
(* sends a REQUEST.                                                        *)
(***************************************************************************)
C33_BitfieldFirst ==
    \A s \in Sessions : \A k \in DOMAIN nreq[s] : nreq[s][k] = 0

(***************************************************************************)
(* C34: a task of async_connect_to_peer that established its TCP           *)
(* connection has closed the socket when it finishes, whatever the way it  *)
(* finishes.                                                               *)
(***************************************************************************)
C34_SocketClosed ==
    \A i \in DOMAIN conn_pc : conn_pc[i] = "done" => writer[i] # "open"

(***************************************************************************)
(* C35: no task holds shared_state['lock'] while it waits in a read or a   *)
(* write of its socket; a step made with the lock held reads and updates   *)
(* only the two shared sets (and the locals set from them) and sends       *)
(* nothing; the shared sets change only in a step of the task that holds   *)
(* the lock.                                                               *)
(***************************************************************************)
C35_LockDiscipline ==
    /\ [](\A s \in Sessions : pc[s] \in SocketAwaits \cup LockAwaits => lock # s)
    /\ [][\A s \in Sessions : lock = s /\ pc'[s] # pc[s] =>
              /\ nreq' = nreq
              /\ bitfield' = bitfield
              /\ unchoked' = unchoked
              /\ pieces_received' = pieces_received
              /\ blocks_requested' = blocks_requested]_vars
    /\ [][(shared_pieces_completed' # shared_pieces_completed
             \/ shared_pieces_downloading' # shared_pieces_downloading)
          => \E s \in Sessions : lock = s /\ pc'[s] # pc[s]]_vars

\* a task holds the lock, in the block that records a completed piece,
\* while the other task waits for it
C35_Witness ==
    \E s \in Sessions : \E o \in Sessions \ {s} :
        /\ lock = s
        /\ pc[s] = "complete"
        /\ pc[o] \in LockAwaits

(***************************************************************************)
(* C36: a session that leaves its message loop because                     *)
(* len(pieces_completed) >= pieces_to_download has every piece index       *)
(* 0 .. pieces_to_download - 1 in its completed set.                       *)
(***************************************************************************)
C36_CompleteMeansAll ==
    [][\A s \in Sessions :
          /\ pc[s] # "done"
          /\ pc'[s] = "done"
          /\ ~ LoopCondition(pieces_completed[s])
          => 0 .. (pieces_to_download - 1) \subseteq pieces_completed[s]]_vars

(***************************************************************************)
(* C37: a session that is unchoked, whose peer has a piece that is neither *)
(* completed nor requested by any session, and that has fewer than         *)
(* max_concurrent_pieces pieces outstanding itself, does not stay so for   *)
(* ever: it requests such pieces until none is left or its own pipeline is *)
(* full, whatever other sessions had claimed before it started.            *)
(***************************************************************************)
\* the pieces of the peer of s that nobody has completed or requested
Unclaimed(s) ==
    {p \in bitfield[s].bits \cap Pieces :
        /\ p \notin shared_pieces_completed
        /\ \A o \in Sessions : p \notin Claimed(o)}

CouldRequest(s) ==
    /\ Live(s)
    /\ unchoked[s]
    /\ Truthy(bitfield[s])
    /\ Unclaimed(s) # {}
    /\ Cardinality(Claimed(s)) < max_concurrent_pieces

C37_RequestsWhenRoom ==
    \A s \in Sessions : CouldRequest(s) ~> ~ CouldRequest(s)

(***************************************************************************)
(* C38: when connect has returned the dictionary of a session, the         *)
(* 'pieces' of that dictionary hold the complete blocks of every piece     *)
(* that is in the shared completed set and has no file on disk.            *)
(***************************************************************************)
C38_ResultHoldsCompleted ==
    sup = "returned" /\ returned # NoSession =>
        \A p \in shared_pieces_completed :
            disk[p] = "none" =>
                is_piece_complete(pieces_received[returned], p, piece_length)

ValidFile ==
    /\ vs_file # None
    /\ verify_piece(vs_file, piece_hashes[vs_piece_index + 1])

C40_SavedMeansVerified ==
    vs_pc = "returned" /\ vs_piece_index < Len(piece_hashes) =>
        /\ vs_file # None => ValidFile
        /\ vs_result => ValidFile

====
